---- MODULE Spec2Model ----
(***************************************************************************)
(* A state-machine model of the Redfish service of this repository:        *)
(*   - redfish-axum/src/lib.rs : the HTTP pipeline (router, handlers,      *)
(*     identity resolution, session store, response shaping);              *)
(*   - example/src/tree.rs     : MockTree, RedfishResource,                *)
(*     RedfishCollection (the in-memory tree);                             *)
(*   - example/src/main.rs     : the embedder's tree (get_mock_tree) and   *)
(*     its hooks (create_session, patch_session_service);                  *)
(*   - redfish-data/src/lib.rs : AllowedMethods, schema types, get_uri_id, *)
(*     the OData documents.                                                *)
(*                                                                         *)
(* Conventions.                                                            *)
(*   A URI is the sequence of its path segments: "/redfish/v1" is          *)
(*   <<"redfish", "v1">>; a request path may end in one empty segment,     *)
(*   which stands for a trailing slash.                                    *)
(*   Option<T> is a sequence of length 0 (None) or 1 (Some(x)).            *)
(*   A JSON value is a tagged record (JStr, JNum, JNull, JBool, JArr,      *)
(*   JObj); a JSON object is a function from its keys to JSON values.      *)
(*   A response with status 0 is the absence of a response: the handler    *)
(*   panicked, the connection task was aborted and nothing was sent.       *)
(***************************************************************************)
EXTENDS Integers, Sequences, FiniteSets, TLC

\* How many sessions are created in one behaviour: the cap on the token counter.
MaxTokens == 3

None == <<>>
Some(x) == <<x>>
IsSome(o) == Len(o) = 1
IsNone(o) == Len(o) = 0
Unwrap(o) == o[1]

Last(s) == s[Len(s)]
Front(s) == SubSeq(s, 1, Len(s) - 1)

---------------------------------------------------------------------------
(* JSON values (serde_json::Value)                                         *)

JNull == [t |-> "null"]
JStr(s) == [t |-> "str", s |-> s]
JNum(n) == [t |-> "num", n |-> n]
\* A serde_json::Number that is not an integer (an f64), by its literal
JFloat(s) == [t |-> "float", s |-> s]
JBool(b) == [t |-> "bool", b |-> b]
JArr(a) == [t |-> "arr", a |-> a]
JObj(o) == [t |-> "obj", o |-> o]

\* Value::as_u64: Some(n) for an integer n >= 0, None for a negative integer,
\* an f64 and every value that is not a number
as_u64(v) == IF v.t = "num" /\ v.n >= 0 THEN <<v.n>> ELSE <<>>

\* serde_json::Map::insert: insert or overwrite one key
MapInsert(m, k, v) == [x \in (DOMAIN m) \cup {k} |-> IF x = k THEN v ELSE m[x]]
\* HashMap::remove
MapRemove(m, k) == [x \in (DOMAIN m) \ {k} |-> m[x]]
EmptyMap == [x \in {} |-> JNull]
\* json!({ k1: v1, ... }): the object of a list of <<key, value>> pairs
Object(pairs) ==
    JObj([ k \in {pairs[i][1] : i \in 1..Len(pairs)} |->
           pairs[CHOOSE i \in 1..Len(pairs) : pairs[i][1] = k][2] ])
\* json!({ "@odata.id": uri })
Link(uri) == Object(<< <<"@odata.id", JStr(uri)>> >>)

---------------------------------------------------------------------------
(* redfish-data: decimal formatting, URIs, schema types, AllowedMethods    *)

DigitChars == <<"0", "1", "2", "3", "4", "5", "6", "7", "8", "9">>

\* u32 / i32 Display: the decimal digits of n
RECURSIVE to_string(_)
to_string(n) ==
    IF n < 10 THEN DigitChars[n + 1]
    ELSE to_string(n \div 10) \o DigitChars[(n % 10) + 1]

\* str::parse::<i32>: Some(n) for the decimal numeral of n, None for any other
\* string (ids beyond MaxTokens + 1 are never formatted in this model)
parse(s) ==
    LET hits == {n \in 0..(MaxTokens + 1) : to_string(n) = s}
    IN  IF hits = {} THEN None ELSE Some(CHOOSE n \in hits : TRUE)

\* The string of a URI: "/" before every segment
UriStr(u) ==
    LET str[i \in 0..Len(u)] == IF i = 0 THEN "" ELSE str[i - 1] \o "/" \o u[i]
    IN  str[Len(u)]

\* get_uri_id: "RootService" for the service root, else the file name of the path
get_uri_id(uri) ==
    IF uri = <<"redfish", "v1">> THEN "RootService" ELSE Last(uri)

\* impl Display for ResourceSchemaVersion
ResourceSchemaVersion_to_string(v) ==
    "v" \o to_string(v.major) \o "_" \o to_string(v.minor) \o "_" \o to_string(v.build)

\* impl Display for CollectionSchemaVersion
CollectionSchemaVersion_to_string(v) == "v" \o to_string(v.version)

ResourceSchemaVersion_new(major, minor, build) ==
    [major |-> major, minor |-> minor, build |-> build]

\* A resource type whose describedBy names the major version only
ResourceType_new_dmtf_major(name, version) ==
    [ name |-> name,
      version |-> version,
      xml_schema_uri |-> "http://redfish.dmtf.org/schemas/v1/" \o name \o "_v"
                           \o to_string(version.major) \o ".xml",
      described_by |-> "https://redfish.dmtf.org/schemas/v1/" \o name \o "_v"
                           \o to_string(version.major) \o ".json" ]

\* ResourceType::new_dmtf
ResourceType_new_dmtf(name, version) ==
    [ name |-> name,
      version |-> version,
      xml_schema_uri |-> "http://redfish.dmtf.org/schemas/v1/" \o name \o "_v"
                           \o to_string(version.major) \o ".xml",
      described_by |-> "https://redfish.dmtf.org/schemas/v1/" \o name \o "."
                           \o ResourceSchemaVersion_to_string(version) \o ".json" ]

\* CollectionType::new_dmtf
CollectionType_new_dmtf(name, version) ==
    [ name |-> name,
      version |-> version,
      xml_schema_uri |-> "http://redfish.dmtf.org/schemas/v1/" \o name \o "_"
                           \o CollectionSchemaVersion_to_string(version) \o ".xml",
      described_by |-> "https://redfish.dmtf.org/schemas/v1/" \o name \o ".json" ]

\* CollectionType::new_dmtf_v1
CollectionType_new_dmtf_v1(name) == CollectionType_new_dmtf(name, [version |-> 1])

\* Vec<&str>::join(",")
RECURSIVE JoinComma(_)
JoinComma(v) ==
    IF Len(v) = 0 THEN ""
    ELSE IF Len(v) = 1 THEN v[1]
    ELSE JoinComma(Front(v)) \o "," \o Last(v)

\* A Display that lists POST before PATCH
AllowedMethods_post_first(a) ==
    LET v1 == IF a.get THEN <<"GET", "HEAD">> ELSE <<>>
        v2 == IF a.delete THEN Append(v1, "DELETE") ELSE v1
        v3 == IF a.post THEN Append(v2, "POST") ELSE v2
        v4 == IF a.patch THEN Append(v3, "PATCH") ELSE v3
    IN  JoinComma(v4)

\* impl fmt::Display for AllowedMethods
AllowedMethods_to_string(a) ==
    LET v1 == IF a.get THEN <<"GET", "HEAD">> ELSE <<>>
        v2 == IF a.delete THEN Append(v1, "DELETE") ELSE v1
        v3 == IF a.patch THEN Append(v2, "PATCH") ELSE v2
        v4 == IF a.post THEN Append(v3, "POST") ELSE v3
    IN  JoinComma(v4)

---------------------------------------------------------------------------
(* example/src/tree.rs: RedfishCollection, RedfishResource                  *)

SessionsUri == <<"redfish", "v1", "SessionService", "Sessions">>
RootUri == <<"redfish", "v1">>

\* RedfishCollection::new
RedfishCollection_new(uri, schema_name, name, members, post) ==
    [ uri |-> uri,
      resource_type |-> CollectionType_new_dmtf_v1(schema_name),
      name |-> name,
      members |-> members,
      post |-> post ]

\* A body whose count is taken before the last member is pushed
Collection_get_body_stale_count(c) ==
    JObj([ k \in {"@odata.id", "@odata.etag", "@odata.type", "Name", "Members",
                  "Members@odata.count"} |->
           CASE k = "@odata.id" -> JStr(UriStr(c.uri))
             [] k = "@odata.etag" -> JStr("\"FIXME\"")
             [] k = "@odata.type" ->
                    JStr("#" \o c.resource_type.name \o "." \o c.resource_type.name)
             [] k = "Name" -> JStr(c.name)
             [] k = "Members" ->
                    JArr([ i \in 1..Len(c.members) |->
                           JObj([ x \in {"@odata.id"} |-> JStr(UriStr(c.members[i])) ]) ])
             [] k = "Members@odata.count" ->
                    JNum(IF Len(c.members) = 0 THEN 0 ELSE Len(c.members) - 1) ])

\* impl RedfishNode for RedfishCollection :: get_body
Collection_get_body(c) ==
    JObj([ k \in {"@odata.id", "@odata.etag", "@odata.type", "Name", "Members",
                  "Members@odata.count"} |->
           CASE k = "@odata.id" -> JStr(UriStr(c.uri))
             [] k = "@odata.etag" -> JStr("\"FIXME\"")
             [] k = "@odata.type" ->
                    JStr("#" \o c.resource_type.name \o "." \o c.resource_type.name)
             [] k = "Name" -> JStr(c.name)
             [] k = "Members" ->
                    JArr([ i \in 1..Len(c.members) |->
                           JObj([ x \in {"@odata.id"} |-> JStr(UriStr(c.members[i])) ]) ])
             [] k = "Members@odata.count" -> JNum(Len(c.members)) ])

\* impl RedfishNode for RedfishCollection :: get_allowed_methods
Collection_get_allowed_methods(c) ==
    [ delete |-> FALSE, get |-> TRUE, patch |-> FALSE, post |-> IsSome(c.post) ]

\* impl RedfishNode for RedfishCollection :: described_by
Collection_described_by(c) == Some(c.resource_type.described_by)

\* RedfishResource::new: the body is rest's object with the five canonical
\* properties inserted over it
RedfishResource_new(uri, schema_name, schema_version, term_name, name, delete, patch, collection, rest) ==
    LET b0 == rest.o
        b1 == MapInsert(b0, "@odata.id", JStr(UriStr(uri)))
        b2 == MapInsert(b1, "@odata.etag", JStr("\"FIXME\""))
        b3 == MapInsert(b2, "@odata.type",
                        JStr("#" \o schema_name \o "."
                             \o ResourceSchemaVersion_to_string(schema_version)
                             \o "." \o term_name))
        b4 == MapInsert(b3, "Id", JStr(get_uri_id(uri)))
        b5 == MapInsert(b4, "Name", JStr(name))
    IN  [ uri |-> uri,
          resource_type |-> ResourceType_new_dmtf(schema_name, schema_version),
          body |-> b5,
          collection |-> collection,
          patch |-> patch,
          delete |-> delete ]

\* impl RedfishNode for RedfishResource :: get_body
Resource_get_body(r) == JObj(r.body)

\* Capabilities that offer PATCH on every resource
Resource_get_allowed_methods_patchable(r) ==
    [ delete |-> IsSome(r.delete), get |-> TRUE, patch |-> TRUE, post |-> FALSE ]

\* impl RedfishNode for RedfishResource :: get_allowed_methods
Resource_get_allowed_methods(r) ==
    [ delete |-> IsSome(r.delete), get |-> TRUE, patch |-> IsSome(r.patch),
      post |-> FALSE ]

\* impl RedfishNode for RedfishResource :: described_by
Resource_described_by(r) == Some(r.resource_type.described_by)

\* &dyn RedfishNode: what the pipeline can read of a node
ResourceNode(r) ==
    [ uri |-> r.uri, body |-> Resource_get_body(r),
      allowed |-> Resource_get_allowed_methods(r),
      described_by |-> Resource_described_by(r) ]

CollectionNode(c) ==
    [ uri |-> c.uri, body |-> Collection_get_body(c),
      allowed |-> Collection_get_allowed_methods(c),
      described_by |-> Collection_described_by(c) ]

---------------------------------------------------------------------------
(* example/src/main.rs: the embedder's hooks                               *)

\* A hook's outcome: the value it returns, or a panic (an unwrap of None)
HookOk(v) == [panic |-> FALSE, v |-> Some(v)]
HookPanic == [panic |-> TRUE, v |-> None]

\* An Id choice that looks at the first member only
HighestId_first(members, i, highest) ==
    IF Len(members) = 0 THEN Some(highest) ELSE parse(get_uri_id(members[1]))

\* An Id choice that counts the members instead of scanning their Ids
HighestId_counting(members, i, highest) == Some(Len(members))

\* The loop of create_session over the members: the highest numeric Id, or
\* None when some member's Id does not parse (the unwrap panics)
RECURSIVE HighestId(_, _, _)
HighestId(members, i, highest) ==
    IF i > Len(members) THEN Some(highest)
    ELSE LET id == parse(get_uri_id(members[i]))
         IN  IF IsNone(id) THEN None
             ELSE HighestId(members, i + 1,
                            IF Unwrap(id) > highest THEN Unwrap(id) ELSE highest)

\* Value::as_str of req["UserName"], as json! serializes the Option<&str>
UserNameValue(v) == IF v.t = "str" THEN v ELSE JNull

\* create_session: the post hook of the session collection
create_session(collection, req) ==
    LET highest == HighestId(collection.members, 1, 0)
    IN  IF IsNone(highest) THEN HookPanic
        ELSE IF req.t # "obj" THEN HookPanic
        ELSE IF "UserName" \notin DOMAIN req.o THEN HookPanic
        ELSE LET id == to_string(Unwrap(highest) + 1)
                 member_uri == Append(collection.uri, id)
             IN  HookOk(RedfishResource_new(
                     member_uri, "Session", ResourceSchemaVersion_new(1, 6, 0),
                     "Session", "Session " \o id,
                     Some("session_delete"), None, Some(collection.uri),
                     JObj([ k \in {"UserName", "Password"} |->
                            IF k = "UserName" THEN UserNameValue(req.o["UserName"])
                            ELSE JNull ])))

\* patch_session_service: the patch hook of /redfish/v1/SessionService.  The
\* new timeout is unwrapped as a u64, and body["SessionTimeout"] = .. is the
\* IndexMut of serde_json::Map, which panics on a key the map does not have
patch_session_service(resource, req) ==
    IF req.t # "obj" THEN HookPanic
    ELSE IF "SessionTimeout" \notin DOMAIN req.o THEN HookPanic
    ELSE IF IsNone(as_u64(req.o["SessionTimeout"])) THEN HookPanic
    ELSE IF "SessionTimeout" \notin DOMAIN resource.body THEN HookPanic
    ELSE HookOk([resource EXCEPT !.body["SessionTimeout"] =
                    JNum(Unwrap(as_u64(req.o["SessionTimeout"])))])

\* The delete hook create_session gives every session: |_| Ok(())
session_delete(resource) == HookOk(resource)

\* Calling a stored fn pointer
CallPost(hook, collection, req) ==
    CASE hook = "create_session" -> create_session(collection, req)

CallPatch(hook, resource, req) ==
    CASE hook = "patch_session_service" -> patch_session_service(resource, req)

CallDelete(hook, resource) ==
    CASE hook = "session_delete" -> session_delete(resource)

---------------------------------------------------------------------------
(* example/src/tree.rs: MockTree                                           *)

\* Result<_, RedfishErr>, or the panic of a hook inside the operation
Ok(node) == [kind |-> "Ok", node |-> Some(node), allowed |-> None]
OkUnit == [kind |-> "Ok", node |-> None, allowed |-> None]
ErrNotFound == [kind |-> "NotFound", node |-> None, allowed |-> None]
ErrUnauthorized == [kind |-> "Unauthorized", node |-> None, allowed |-> None]
ErrMethodNotAllowed(a) == [kind |-> "MethodNotAllowed", node |-> None, allowed |-> Some(a)]
Panicked == [kind |-> "Panic", node |-> None, allowed |-> None]

\* Vec::contains
Contains(v, x) == \E i \in 1..Len(v) : v[i] = x

\* MockTree::new
MockTree_new ==
    [ resources |-> EmptyMap, collections |-> EmptyMap,
      collection_types |-> <<>>, resource_types |-> <<>> ]

\* An add_resource that pushes the type whether or not the list has it
add_resource_unchecked(tree, resource) ==
    [ tree EXCEPT
        !.resources = MapInsert(@, resource.uri, resource),
        !.resource_types = Append(@, resource.resource_type) ]

\* MockTree::add_resource
add_resource(tree, resource) ==
    [ tree EXCEPT
        !.resources = MapInsert(@, resource.uri, resource),
        !.resource_types = IF Contains(@, resource.resource_type) THEN @
                           ELSE Append(@, resource.resource_type) ]

\* MockTree::add_collection
add_collection(tree, collection) ==
    [ tree EXCEPT
        !.collections = MapInsert(@, collection.uri, collection),
        !.collection_types = IF Contains(@, collection.resource_type) THEN @
                             ELSE Append(@, collection.resource_type) ]

\* impl RedfishTree for MockTree :: get
MockTree_get(tree, uri, username) ==
    IF uri # RootUri /\ IsNone(username) THEN ErrUnauthorized
    ELSE IF uri \in DOMAIN tree.resources THEN Ok(ResourceNode(tree.resources[uri]))
    ELSE IF uri \in DOMAIN tree.collections THEN Ok(CollectionNode(tree.collections[uri]))
    ELSE ErrNotFound

\* impl RedfishTree for MockTree :: create; the tree after the call and its result
MockTree_create(tree, uri, req, username) ==
    IF uri # SessionsUri /\ IsNone(username)
    THEN [tree |-> tree, result |-> ErrUnauthorized]
    ELSE IF uri \notin DOMAIN tree.collections
    THEN IF uri \in DOMAIN tree.resources
         THEN [tree |-> tree,
               result |-> ErrMethodNotAllowed(
                              Resource_get_allowed_methods(tree.resources[uri]))]
         ELSE [tree |-> tree, result |-> ErrNotFound]
    ELSE LET collection == tree.collections[uri]
         IN  IF IsNone(collection.post)
             THEN [tree |-> tree,
                   result |-> ErrMethodNotAllowed(
                                  Collection_get_allowed_methods(collection))]
             ELSE LET hook == CallPost(Unwrap(collection.post), collection, req)
                  IN  IF hook.panic THEN [tree |-> tree, result |-> Panicked]
                      ELSE LET member == Unwrap(hook.v)
                               after ==
                                 [ tree EXCEPT
                                     !.resources = MapInsert(@, member.uri, member),
                                     !.collections[uri].members =
                                         Append(@, member.uri) ]
                           IN  [tree |-> after,
                                result |-> Ok(ResourceNode(after.resources[member.uri]))]

\* Iterator::position(|x| x == uri): Some(first index) or None
Position(v, x) ==
    IF Contains(v, x)
    THEN Some(CHOOSE i \in 1..Len(v) : v[i] = x /\ \A j \in 1..(i - 1) : v[j] # x)
    ELSE None

\* A removal that moves the last element into the gap, as Vec::swap_remove does
VecRemove_swapping(v, index) ==
    IF index = Len(v) THEN Front(v) ELSE [Front(v) EXCEPT ![index] = Last(v)]

\* Vec::remove(index): the later elements shift left
VecRemove(v, index) == SubSeq(v, 1, index - 1) \o SubSeq(v, index + 1, Len(v))

\* A delete that leaves the parent collection's members alone
RemoveMember_skipped(collections, resource, uri) == collections

\* The member-list edit of delete: drop uri from its parent collection's members
RemoveMember(collections, resource, uri) ==
    IF IsNone(resource.collection) THEN collections
    ELSE LET collection_uri == Unwrap(resource.collection)
         IN  IF collection_uri \notin DOMAIN collections THEN collections
             ELSE LET member_index == Position(collections[collection_uri].members, uri)
                  IN  IF IsNone(member_index) THEN collections
                      ELSE [ collections EXCEPT ![collection_uri].members =
                                 VecRemove(@, Unwrap(member_index)) ]

\* impl RedfishTree for MockTree :: delete
MockTree_delete(tree, uri, username) ==
    IF IsNone(username) THEN [tree |-> tree, result |-> ErrUnauthorized]
    ELSE IF uri \notin DOMAIN tree.resources
    THEN IF uri \in DOMAIN tree.collections
         THEN [tree |-> tree,
               result |-> ErrMethodNotAllowed(
                              Collection_get_allowed_methods(tree.collections[uri]))]
         ELSE [tree |-> tree, result |-> ErrNotFound]
    ELSE LET resource == tree.resources[uri]
         IN  IF IsNone(resource.delete)
             THEN [tree |-> tree,
                   result |-> ErrMethodNotAllowed(Resource_get_allowed_methods(resource))]
             ELSE LET hook == CallDelete(Unwrap(resource.delete), resource)
                  IN  IF hook.panic THEN [tree |-> tree, result |-> Panicked]
                      ELSE [tree |->
                               [ tree EXCEPT
                                   !.collections = RemoveMember(@, resource, uri),
                                   !.resources = MapRemove(@, uri) ],
                            result |-> OkUnit]

\* impl RedfishTree for MockTree :: patch
MockTree_patch(tree, uri, req, username) ==
    IF IsNone(username) THEN [tree |-> tree, result |-> ErrUnauthorized]
    ELSE IF uri \notin DOMAIN tree.resources
    THEN IF uri \in DOMAIN tree.collections
         THEN [tree |-> tree,
               result |-> ErrMethodNotAllowed(
                              Collection_get_allowed_methods(tree.collections[uri]))]
         ELSE [tree |-> tree, result |-> ErrNotFound]
    ELSE LET resource == tree.resources[uri]
         IN  IF IsNone(resource.patch)
             THEN [tree |-> tree,
                   result |-> ErrMethodNotAllowed(Resource_get_allowed_methods(resource))]
             ELSE LET hook == CallPatch(Unwrap(resource.patch), resource, req)
                  IN  IF hook.panic THEN [tree |-> tree, result |-> Panicked]
                      ELSE LET after == [tree EXCEPT !.resources[uri] = Unwrap(hook.v)]
                           IN  [tree |-> after,
                                result |-> Ok(ResourceNode(after.resources[uri]))]

---------------------------------------------------------------------------
(* example/src/main.rs: get_mock_tree, the tree the service starts with    *)

SessionServiceUri == <<"redfish", "v1", "SessionService">>
AccountServiceUri == <<"redfish", "v1", "AccountService">>
AccountsUri == <<"redfish", "v1", "AccountService", "Accounts">>
AdminUri == <<"redfish", "v1", "AccountService", "Accounts", "admin">>
RolesUri == <<"redfish", "v1", "AccountService", "Roles">>
AdministratorUri == <<"redfish", "v1", "AccountService", "Roles", "Administrator">>
OperatorUri == <<"redfish", "v1", "AccountService", "Roles", "Operator">>
ReadOnlyUri == <<"redfish", "v1", "AccountService", "Roles", "ReadOnly">>

Strings(v) == JArr([i \in 1..Len(v) |-> JStr(v[i])])

ServiceRootResource ==
    RedfishResource_new(RootUri, "ServiceRoot", ResourceSchemaVersion_new(1, 15, 0),
        "ServiceRoot", "Root Service", None, None, None,
        Object(<< <<"AccountService", Link("/redfish/v1/AccountService")>>,
                  <<"Links", Object(<< <<"Sessions",
                                Link("/redfish/v1/SessionService/Sessions")>> >>)>>,
                  <<"SessionService", Link("/redfish/v1/SessionService")>> >>))

SessionServiceResource ==
    RedfishResource_new(SessionServiceUri, "SessionService",
        ResourceSchemaVersion_new(1, 1, 8), "SessionService", "Session Service",
        None, Some("patch_session_service"), None,
        Object(<< <<"@Redfish.WriteableProperties", Strings(<<"SessionTimeout">>)>>,
                  <<"SessionTimeout", JNum(600)>>,
                  <<"Sessions", Link("/redfish/v1/SessionService/Sessions")>> >>))

SessionCollection ==
    RedfishCollection_new(SessionsUri, "SessionCollection", "Session Collection",
        <<>>, Some("create_session"))

AccountServiceResource ==
    RedfishResource_new(AccountServiceUri, "AccountService",
        ResourceSchemaVersion_new(1, 12, 0), "AccountService", "Account Service",
        None, None, None,
        Object(<< <<"Accounts", Link("/redfish/v1/AccountService/Accounts")>>,
                  <<"Roles", Link("/redfish/v1/AccountService/Roles")>> >>))

AccountCollection ==
    RedfishCollection_new(AccountsUri, "ManagerAccountCollection",
        "Account Collection", <<AdminUri>>, None)

AdminResource ==
    RedfishResource_new(AdminUri, "ManagerAccount",
        ResourceSchemaVersion_new(1, 10, 0), "ManagerAccount", "Admin Account",
        None, None, Some(AccountsUri),
        Object(<< <<"@Redfish.WriteableProperties", Strings(<<"Password">>)>>,
                  <<"AccountTypes", Strings(<<"Redfish">>)>>,
                  <<"Links", Object(<< <<"Role",
                        Link("/redfish/v1/AccountService/Roles/Administrator")>> >>)>>,
                  <<"Password", JNull>>,
                  <<"RoleId", JStr("Administrator")>>,
                  <<"UserName", JStr("admin")>> >>))

RoleCollection ==
    RedfishCollection_new(RolesUri, "RoleCollection", "Role Collection",
        <<AdministratorUri, OperatorUri, ReadOnlyUri>>, None)

RoleResource(uri, name, role_id, privileges) ==
    RedfishResource_new(uri, "Role", ResourceSchemaVersion_new(1, 3, 1), "Role",
        name, None, None, Some(RolesUri),
        Object(<< <<"AssignedPrivileges", Strings(privileges)>>,
                  <<"IsPredefined", JBool(TRUE)>>,
                  <<"RoleId", JStr(role_id)>> >>))

get_mock_tree ==
    LET t1 == add_resource(MockTree_new, ServiceRootResource)
        t2 == add_resource(t1, SessionServiceResource)
        t3 == add_collection(t2, SessionCollection)
        t4 == add_resource(t3, AccountServiceResource)
        t5 == add_collection(t4, AccountCollection)
        t6 == add_resource(t5, AdminResource)
        t7 == add_collection(t6, RoleCollection)
        t8 == add_resource(t7, RoleResource(AdministratorUri, "Administrator Role",
                  "Administrator",
                  <<"Login", "ConfigureManager", "ConfigureUsers", "ConfigureSelf",
                    "ConfigureComponents">>))
        t9 == add_resource(t8, RoleResource(OperatorUri, "Operator Role", "Operator",
                  <<"Login", "ConfigureSelf", "ConfigureComponents">>))
    IN  add_resource(t9, RoleResource(ReadOnlyUri, "ReadOnly Role", "ReadOnly",
                  <<"ConfigureSelf", "Login">>))

---------------------------------------------------------------------------
(* redfish-data/src/lib.rs: the OData documents                            *)

\* get_versioned_name
get_versioned_name(name, version_string) == name \o "." \o version_string

\* ResourceType::to_xml
ResourceType_to_xml(rt) ==
    "  <edmx:Reference Uri=\"" \o rt.xml_schema_uri
    \o "\">\n    <edmx:Include Namespace=\"" \o rt.name
    \o "\" />\n    <edmx:Include Namespace=\""
    \o get_versioned_name(rt.name, ResourceSchemaVersion_to_string(rt.version))
    \o "\" />\n  </edmx:Reference>\n"

\* CollectionType::to_xml
CollectionType_to_xml(ct) ==
    "  <edmx:Reference Uri=\"" \o ct.xml_schema_uri
    \o "\">\n    <edmx:Include Namespace=\"" \o ct.name
    \o "\" />\n  </edmx:Reference>\n"

\* The collection references written last-registered first
RECURSIVE ConcatCollectionXml_reversed(_)
ConcatCollectionXml_reversed(types) ==
    IF types = <<>> THEN ""
    ELSE CollectionType_to_xml(Last(types)) \o ConcatCollectionXml_reversed(Front(types))

RECURSIVE ConcatCollectionXml(_)
ConcatCollectionXml(types) ==
    IF types = <<>> THEN ""
    ELSE ConcatCollectionXml(Front(types)) \o CollectionType_to_xml(Last(types))

RECURSIVE ConcatResourceXml(_)
ConcatResourceXml(types) ==
    IF types = <<>> THEN ""
    ELSE ConcatResourceXml(Front(types)) \o ResourceType_to_xml(Last(types))

\* The loop's `service_root_type`: the last registered type named ServiceRoot
ServiceRootType(resource_types) ==
    LET hits == {i \in 1..Len(resource_types) : resource_types[i].name = "ServiceRoot"}
    IN  IF hits = {} THEN None
        ELSE Some(resource_types[CHOOSE i \in hits : \A j \in hits : j <= i])

\* get_odata_metadata_document
get_odata_metadata_document(collection_types, resource_types) ==
    LET srt == ServiceRootType(resource_types)
    IN  "<?xml version=\"1.0\" encoding=\"UTF-8\"?>\n<edmx:Edmx xmlns:edmx=\"http://docs.oasis-open.org/odata/ns/edmx\" Version=\"4.0\">\n"
        \o ConcatCollectionXml(collection_types)
        \o ConcatResourceXml(resource_types)
        \o "  <edmx:Reference Uri=\"http://redfish.dmtf.org/schemas/v1/RedfishExtensions_v1.xml\">\n"
        \o "    <edmx:Include Namespace=\"RedfishExtensions.v1_0_0\" Alias=\"Redfish\"/>\n"
        \o "  </edmx:Reference>\n"
        \o (IF IsSome(srt)
            THEN "  <edmx:DataServices>\n"
                 \o "    <Schema xmlns=\"http://docs.oasis-open.org/odata/ns/edm\" Namespace=\"Service\">\n"
                 \o "      <EntityContainer Name=\"Service\" Extends=\""
                 \o get_versioned_name(Unwrap(srt).name,
                                       ResourceSchemaVersion_to_string(Unwrap(srt).version))
                 \o ".ServiceContainer\" />\n"
                 \o "    </Schema>\n  </edmx:DataServices>\n"
            ELSE "")
        \o "</edmx:Edmx>\n"

\* serde_json::Map iterates in key order; the property names of this model in
\* that (byte-wise) order
KeyOrder ==
    << "@Redfish.WriteableProperties", "@odata.etag", "@odata.id", "@odata.type",
       "AccountService", "AccountTypes", "Accounts", "AssignedPrivileges", "Id",
       "IsPredefined", "Links", "Members", "Members@odata.count", "Name",
       "Password", "RoleId", "Roles", "SessionService", "SessionTimeout",
       "Sessions", "UserName" >>

\* The URIs that bodies link to, by their strings (Path::new(url))
LinkTargets ==
    { <<"redfish">>, RootUri, SessionServiceUri, SessionsUri, AccountServiceUri,
      AccountsUri, AdminUri, RolesUri, AdministratorUri, OperatorUri, ReadOnlyUri }
PathOf(url) == CHOOSE u \in LinkTargets : UriStr(u) = url

\* ODataServiceValue::new
ODataServiceValue_new(url) ==
    Object(<< <<"kind", JStr("Singleton")>>,
              <<"name", JStr(Last(PathOf(url)))>>,
              <<"url", JStr(url)>> >>)

\* The loop with every entry named after its property rather than its url
RECURSIVE ServiceValues_named_by_key(_, _)
ServiceValues_named_by_key(service_root, i) ==
    IF i = 0 THEN << ODataServiceValue_new("/redfish/v1") >>
    ELSE LET before == ServiceValues_named_by_key(service_root, i - 1)
             k == KeyOrder[i]
         IN  IF k \in DOMAIN service_root
                /\ service_root[k].t = "obj"
                /\ "@odata.id" \in DOMAIN service_root[k].o
             THEN Append(before,
                      Object(<< <<"kind", JStr("Singleton")>>,
                                <<"name", JStr(k)>>,
                                <<"url", JStr(service_root[k].o["@odata.id"].s)>> >>))
             ELSE before

\* The loop of get_odata_service_document over service_root.values()
RECURSIVE ServiceValues(_, _)
ServiceValues(service_root, i) ==
    IF i = 0 THEN << ODataServiceValue_new("/redfish/v1") >>
    ELSE LET before == ServiceValues(service_root, i - 1)
             k == KeyOrder[i]
         IN  IF k \in DOMAIN service_root
                /\ service_root[k].t = "obj"
                /\ "@odata.id" \in DOMAIN service_root[k].o
             THEN Append(before, ODataServiceValue_new(service_root[k].o["@odata.id"].s))
             ELSE before

\* get_odata_service_document
get_odata_service_document(service_root) ==
    [ k \in {"@odata.id", "@odata.context", "value"} |->
      CASE k = "@odata.id" -> JStr("/redfish/v1/odata")
        [] k = "@odata.context" -> JStr("/redfish/v1/$metadata")
        [] k = "value" -> JArr(ServiceValues(service_root, Len(KeyOrder))) ]

---------------------------------------------------------------------------
(* redfish-axum/src/lib.rs: responses                                      *)

EmptyBody == [t |-> "empty"]
XmlBody(text) == [t |-> "xml", s |-> text]
TextBody == [t |-> "text"]

\* A response: its status, the headers the service sets (None: not set), its body
Response(status) ==
    [ status |-> status, allow |-> None, odata_version |-> None,
      cache_control |-> None, www_authenticate |-> None, location |-> None,
      x_auth_token |-> None, link |-> None, etag |-> None, content_type |-> None,
      body |-> EmptyBody ]

\* No response: the handler panicked and the connection was dropped
NoResponse == Response(0)

\* bad_odata_version_response
bad_odata_version_response ==
    [ Response(412) EXCEPT !.odata_version = Some("4.0"),
                           !.cache_control = Some("no-cache") ]

\* get_standard_headers
get_standard_headers(status, allow) ==
    [ Response(status) EXCEPT !.allow = Some(allow),
                              !.odata_version = Some("4.0"),
                              !.cache_control = Some("no-cache") ]

\* node_to_allow
node_to_allow(node) == AllowedMethods_to_string(node.allowed)

\* get_described_by_header_value
get_described_by_header_value(node) ==
    IF IsSome(node.described_by)
    THEN Some("<" \o Unwrap(node.described_by) \o ">; rel=describedby")
    ELSE None

\* get_node_etag_header_value
get_node_etag_header_value(node) ==
    IF node.body.t = "obj" /\ "@odata.etag" \in DOMAIN node.body.o
       /\ node.body.o["@odata.etag"].t = "str"
    THEN Some(node.body.o["@odata.etag"].s)
    ELSE None

\* add_node_headers
add_node_headers(headers, node) ==
    LET described_by == get_described_by_header_value(node)
        etag == get_node_etag_header_value(node)
        h1 == IF IsSome(described_by) THEN [headers EXCEPT !.link = described_by]
              ELSE headers
    IN  IF IsSome(etag) THEN [h1 EXCEPT !.etag = etag] ELSE h1

\* JsonResponse::new(status, headers, data).into_response(): the status and
\* the headers the caller hands in, Content-Type: application/json and the
\* data as the body
JsonResponse(headers, data) ==
    [ headers EXCEPT !.content_type = Some("application/json"), !.body = data ]

\* get_node_get_response
get_node_get_response(node) ==
    JsonResponse(add_node_headers(get_standard_headers(200, node_to_allow(node)), node),
                 node.body)

\* get_node_created_response; additional_headers is the X-Auth-Token, if any
get_node_created_response(node, x_auth_token) ==
    LET h1 == get_standard_headers(201, node_to_allow(node))
        h2 == [h1 EXCEPT !.x_auth_token = x_auth_token]
        h3 == add_node_headers(h2, node)
        h4 == [h3 EXCEPT !.location = Some(UriStr(node.uri))]
    IN  JsonResponse(h4, node.body)

\* get_non_node_json_response
get_non_node_json_response(status, data, allow) ==
    JsonResponse(get_standard_headers(status, allow), data)

\* get_error_response
get_error_response(error) ==
    CASE error.kind = "NotFound" ->
           [ Response(404) EXCEPT !.odata_version = Some("4.0"),
                                  !.cache_control = Some("no-cache") ]
      [] error.kind = "Unauthorized" ->
           [ Response(401) EXCEPT !.odata_version = Some("4.0"),
                                  !.cache_control = Some("no-cache"),
                                  !.www_authenticate = Some("Basic realm=\"simple\"") ]
      [] error.kind = "MethodNotAllowed" ->
           [ Response(405) EXCEPT
               !.allow = Some(AllowedMethods_to_string(Unwrap(error.allowed))),
               !.odata_version = Some("4.0"),
               !.cache_control = Some("no-cache") ]

\* The 204 of deleter
no_content_response == [ Response(204) EXCEPT !.cache_control = Some("no-cache") ]

---------------------------------------------------------------------------
(* redfish-axum/src/lib.rs: the session store and identity resolution      *)

\* Uuid::new_v4().as_simple().to_string(): the n-th token drawn; a v4 UUID is
\* taken to differ from every one drawn before it
Uuid_new_v4(n) == "uuid" \o to_string(n)

\* get_token_user: the username of the first session holding the token
get_token_user(token, sessions) ==
    LET hits == {i \in 1..Len(sessions) : sessions[i].token = token}
    IN  IF hits = {} THEN None
        ELSE Some(sessions[CHOOSE i \in hits : \A j \in hits : i <= j].username)

\* http_auth_basic::Credentials::from_header: Some(user_id), or None on a
\* header that is not "Basic <base64 of user:password>"
Credentials_from_header(header_val) ==
    IF header_val.basic THEN Some(header_val.user_id) ELSE None

\* An X-Auth-Token header value holding the byte 0xFF
NotAsciiToken == "\\xFF"

\* HeaderValue::to_str of an X-Auth-Token: Err when a byte is not visible ASCII
Token_to_str(token) == IF token = NotAsciiToken THEN None ELSE Some(token)

\* HeaderValue::to_str of an Authorization header
Authorization_to_str(header_val) ==
    IF header_val.ascii THEN Some(header_val) ELSE None

\* get_request_username: Ok(Option<username>) or Err(Unauthorized); or the
\* panic of to_str().unwrap() on a header value that is not visible ASCII
get_request_username(headers, sessions) ==
    IF IsSome(headers.x_auth_token)
    THEN IF IsNone(Token_to_str(Unwrap(headers.x_auth_token)))
         THEN [panic |-> TRUE, ok |-> FALSE, user |-> None]
         ELSE LET user == get_token_user(Unwrap(Token_to_str(Unwrap(headers.x_auth_token))),
                                         sessions)
              IN  IF IsNone(user) THEN [panic |-> FALSE, ok |-> FALSE, user |-> None]
                  ELSE [panic |-> FALSE, ok |-> TRUE, user |-> user]
    ELSE IF IsNone(headers.authorization)
    THEN [panic |-> FALSE, ok |-> TRUE, user |-> None]
    ELSE IF IsNone(Authorization_to_str(Unwrap(headers.authorization)))
    THEN [panic |-> TRUE, ok |-> FALSE, user |-> None]
    ELSE LET credentials ==
                 Credentials_from_header(
                     Unwrap(Authorization_to_str(Unwrap(headers.authorization))))
         IN  IF IsNone(credentials) THEN [panic |-> FALSE, ok |-> FALSE, user |-> None]
             ELSE [panic |-> FALSE, ok |-> TRUE, user |-> credentials]

\* Vec::swap_remove(index): the last element takes the removed one's place
swap_remove(v, index) ==
    IF index = Len(v) THEN Front(v) ELSE [Front(v) EXCEPT ![index] = Last(v)]

\* A loop that drops the newest session, whatever its uri
remove_session_newest(sessions, uri) ==
    IF Len(sessions) = 0 THEN sessions ELSE Front(sessions)

\* The loop of deleter over the sessions: drop the first one whose uri matches
remove_session(sessions, uri) ==
    LET hits == {i \in 1..Len(sessions) : sessions[i].uri = uri}
    IN  IF hits = {} THEN sessions
        ELSE swap_remove(sessions, CHOOSE i \in hits : \A j \in hits : i <= j)

\* The check every handler but get_odata_service_doc starts with
bad_odata_version(headers) ==
    IsSome(headers.odata_version) /\ Unwrap(headers.odata_version) # "4.0"

---------------------------------------------------------------------------
(* redfish-axum/src/lib.rs: the handlers.  st is the shared state (AppState *)
(* and the poison flag of the tree mutex); each handler yields the state    *)
(* after it and its response.                                               *)

Out(st, resp) ==
    [ tree |-> st.tree, sessions |-> st.sessions, poisoned |-> st.poisoned,
      drawn |-> st.drawn, resp |-> resp ]

\* A panic while the handler holds the tree guard: std::sync::Mutex is poisoned
PanicLocked(st) == [Out(st, NoResponse) EXCEPT !.poisoned = TRUE]

\* getter
getter(st, headers, path) ==
    IF bad_odata_version(headers) THEN Out(st, bad_odata_version_response)
    ELSE LET uri == <<"redfish">> \o path
         IN  IF st.poisoned THEN Out(st, NoResponse)
             ELSE LET user == get_request_username(headers, st.sessions)
                  IN  IF user.panic THEN PanicLocked(st)
                      ELSE IF ~user.ok THEN Out(st, get_error_response(ErrUnauthorized))
                      ELSE LET got == MockTree_get(st.tree, uri, user.user)
                           IN  IF got.kind = "Ok"
                               THEN Out(st, get_node_get_response(Unwrap(got.node)))
                               ELSE Out(st, get_error_response(got))

\* A deleter that resolves the identity first and checks OData-Version after
deleter_identity_first(st, headers, path) ==
    LET uri == <<"redfish">> \o path
    IN  IF st.poisoned THEN Out(st, NoResponse)
        ELSE LET user == get_request_username(headers, st.sessions)
             IN  IF user.panic THEN PanicLocked(st)
                 ELSE IF ~user.ok THEN Out(st, get_error_response(ErrUnauthorized))
                 ELSE LET del == MockTree_delete(st.tree, uri, user.user)
                      IN  CASE del.result.kind = "Unauthorized" ->
                                 Out(st, get_error_response(del.result))
                            [] bad_odata_version(headers) ->
                                 Out(st, bad_odata_version_response)
                            [] del.result.kind = "Ok" ->
                                 [ Out(st, no_content_response) EXCEPT
                                     !.tree = del.tree,
                                     !.sessions = remove_session(@, uri) ]
                            [] del.result.kind = "Panic" -> PanicLocked(st)
                            [] OTHER -> Out(st, get_error_response(del.result))

\* deleter
deleter(st, headers, path) ==
    IF bad_odata_version(headers) THEN Out(st, bad_odata_version_response)
    ELSE LET uri == <<"redfish">> \o path
         IN  IF st.poisoned THEN Out(st, NoResponse)
             ELSE LET user == get_request_username(headers, st.sessions)
                  IN  IF user.panic THEN PanicLocked(st)
                      ELSE IF ~user.ok THEN Out(st, get_error_response(ErrUnauthorized))
                      ELSE LET del == MockTree_delete(st.tree, uri, user.user)
                           IN  CASE del.result.kind = "Ok" ->
                                      [ Out(st, no_content_response) EXCEPT
                                          !.tree = del.tree,
                                          !.sessions = remove_session(@, uri) ]
                                 [] del.result.kind = "Panic" -> PanicLocked(st)
                                 [] OTHER -> Out(st, get_error_response(del.result))

\* The tail of poster's Ok arm for the session collection: issue a token and
\* record the session; node's UserName is unwrapped as a string
record_session(st, after, node) ==
    LET token == Uuid_new_v4(st.drawn + 1)
        user_name == node.body.o["UserName"]
    IN  IF user_name.t # "str"
        THEN [ PanicLocked(st) EXCEPT !.tree = after, !.drawn = st.drawn + 1 ]
        ELSE [ Out(st, get_node_created_response(node, Some(token))) EXCEPT
                 !.tree = after,
                 !.drawn = st.drawn + 1,
                 !.sessions = Append(@, [ token |-> token, username |-> user_name.s,
                                          uri |-> node.uri ]) ]

\* A poster that leaves a trailing /Members on the URI
strip_members_kept(uri) == uri

\* uri.strip_suffix("/Members")
strip_members(uri) == IF Last(uri) = "Members" THEN Front(uri) ELSE uri

\* poster
poster(st, headers, path, payload) ==
    IF bad_odata_version(headers) THEN Out(st, bad_odata_version_response)
    ELSE LET uri == strip_members(<<"redfish">> \o path)
         IN  IF st.poisoned THEN Out(st, NoResponse)
             ELSE LET user == get_request_username(headers, st.sessions)
                  IN  IF user.panic THEN PanicLocked(st)
                      ELSE IF ~user.ok THEN Out(st, get_error_response(ErrUnauthorized))
                      ELSE LET cre == MockTree_create(st.tree, uri, payload, user.user)
                           IN  CASE cre.result.kind = "Ok" ->
                                      IF uri = SessionsUri
                                      THEN record_session(st, cre.tree,
                                                          Unwrap(cre.result.node))
                                      ELSE [ Out(st, get_node_created_response(
                                                         Unwrap(cre.result.node), None))
                                             EXCEPT !.tree = cre.tree ]
                                 [] cre.result.kind = "Panic" -> PanicLocked(st)
                                 [] OTHER -> Out(st, get_error_response(cre.result))

\* patcher
patcher(st, headers, path, payload) ==
    IF bad_odata_version(headers) THEN Out(st, bad_odata_version_response)
    ELSE LET uri == <<"redfish">> \o path
         IN  IF st.poisoned THEN Out(st, NoResponse)
             ELSE LET user == get_request_username(headers, st.sessions)
                  IN  IF user.panic THEN PanicLocked(st)
                      ELSE IF ~user.ok THEN Out(st, get_error_response(ErrUnauthorized))
                      ELSE LET pat == MockTree_patch(st.tree, uri, payload, user.user)
                           IN  CASE pat.result.kind = "Ok" ->
                                      [ Out(st, get_node_get_response(
                                                    Unwrap(pat.result.node)))
                                        EXCEPT !.tree = pat.tree ]
                                 [] pat.result.kind = "Panic" -> PanicLocked(st)
                                 [] OTHER -> Out(st, get_error_response(pat.result))

\* get_redfish
get_redfish(st, headers) ==
    IF bad_odata_version(headers) THEN Out(st, bad_odata_version_response)
    ELSE Out(st, get_non_node_json_response(200,
                     Object(<< <<"v1", JStr("/redfish/v1/")>> >>), "GET,HEAD"))

\* get_odata_metadata_doc
get_odata_metadata_doc(st, headers) ==
    IF bad_odata_version(headers) THEN Out(st, bad_odata_version_response)
    ELSE IF st.poisoned THEN Out(st, NoResponse)
    ELSE Out(st, [ Response(200) EXCEPT
                     !.content_type = Some("application/xml"),
                     !.allow = Some("GET,HEAD"),
                     !.odata_version = Some("4.0"),
                     !.cache_control = Some("no-cache"),
                     !.body = XmlBody(get_odata_metadata_document(
                                  st.tree.collection_types, st.tree.resource_types)) ])

\* get_odata_service_doc
get_odata_service_doc(st) ==
    IF st.poisoned THEN Out(st, NoResponse)
    ELSE LET service_root == MockTree_get(st.tree, RootUri, None)
         IN  IF service_root.kind # "Ok" THEN PanicLocked(st)
             ELSE Out(st, get_non_node_json_response(200,
                          JObj(get_odata_service_document(
                                   Unwrap(service_root.node).body.o)),
                          "GET,HEAD"))

---------------------------------------------------------------------------
(* redfish-axum/src/lib.rs: app, the router, and what axum does around the  *)
(* handlers                                                                 *)

\* NormalizePathLayer::trim_trailing_slash
RECURSIVE trim_trailing_slash(_)
trim_trailing_slash(path) ==
    IF Len(path) > 0 /\ Last(path) = "" THEN trim_trailing_slash(Front(path))
    ELSE path

\* Router: the route a normalized path matches; a static route wins over the
\* wildcard
route(path) ==
    IF path = <<"redfish">> THEN "/redfish"
    ELSE IF path = <<"redfish", "v1", "$metadata">> THEN "/redfish/v1/$metadata"
    ELSE IF path = <<"redfish", "v1", "odata">> THEN "/redfish/v1/odata"
    ELSE IF Len(path) >= 2 /\ path[1] = "redfish" THEN "/redfish/*path"
    ELSE "none"

\* The wildcard's Path(path): what follows "/redfish/"
wildcard_path(path) == Tail(path)

\* A HEAD response that keeps the body
head_response_with_body(resp) == resp

\* A handler registered with get() also serves HEAD; the body is not sent
head_response(resp) == [resp EXCEPT !.body = EmptyBody]

\* The Json<serde_json::Value> extractor of poster and patcher, which runs
\* before the handler's body: None when it accepts the request, else the
\* rejection's status
json_rejection(req) ==
    IF ~req.headers.content_type_json THEN Some(415)
    ELSE IF ~req.payload.valid THEN Some(400)
    ELSE None

\* The response of a Json rejection: a plain-text message
rejection_response(status) ==
    [ Response(status) EXCEPT !.content_type = Some("text/plain; charset=utf-8"),
                              !.body = TextBody ]

\* The response of a route's MethodRouter to a method it has no handler for
method_not_allowed_response(allow) == [ Response(405) EXCEPT !.allow = Some(allow) ]

\* The Allow header of a MethodRouter built with get(): GET and HEAD
static_allow == "GET,HEAD"

\* app: the service as one function of the shared state and a request
serve(st, r) ==
    LET path == trim_trailing_slash(r.path)
        matched == route(path)
        get_like == r.method \in {"GET", "HEAD"}
        shape(out) == IF r.method = "HEAD"
                      THEN [out EXCEPT !.resp = head_response(@)] ELSE out
        rejected == json_rejection(r)
    IN  CASE matched = "/redfish" ->
               IF get_like THEN shape(get_redfish(st, r.headers))
               ELSE Out(st, method_not_allowed_response(static_allow))
          [] matched = "/redfish/v1/$metadata" ->
               IF get_like THEN shape(get_odata_metadata_doc(st, r.headers))
               ELSE Out(st, method_not_allowed_response(static_allow))
          [] matched = "/redfish/v1/odata" ->
               IF get_like THEN shape(get_odata_service_doc(st))
               ELSE Out(st, method_not_allowed_response(static_allow))
          [] matched = "/redfish/*path" ->
               CASE get_like -> shape(getter(st, r.headers, wildcard_path(path)))
                 [] r.method = "DELETE" ->
                      deleter(st, r.headers, wildcard_path(path))
                 [] r.method = "POST" ->
                      IF IsSome(rejected)
                      THEN Out(st, rejection_response(Unwrap(rejected)))
                      ELSE poster(st, r.headers, wildcard_path(path), r.payload.json)
                 [] r.method = "PATCH" ->
                      IF IsSome(rejected)
                      THEN Out(st, rejection_response(Unwrap(rejected)))
                      ELSE patcher(st, r.headers, wildcard_path(path), r.payload.json)
          [] OTHER -> Out(st, Response(404))

---------------------------------------------------------------------------
(* The requests a client sends.  A request is its method, its path (the    *)
(* segments, before normalization), the headers the service reads, and its  *)
(* body: valid says whether the bytes parse as JSON, json is the parsed     *)
(* value.                                                                   *)

Headers(odata_version, x_auth_token, authorization, content_type_json) ==
    [ odata_version |-> odata_version, x_auth_token |-> x_auth_token,
      authorization |-> authorization, content_type_json |-> content_type_json ]

Request(method, path, headers, payload) ==
    [ method |-> method, path |-> path, headers |-> headers, payload |-> payload ]

JsonPayload(v) == [valid |-> TRUE, json |-> v]
BrokenPayload == [valid |-> FALSE, json |-> JNull]
NoPayload == [valid |-> FALSE, json |-> JNull]

\* An Authorization header value: whether HeaderValue::to_str accepts it
\* (every byte is visible ASCII), and what Credentials::from_header makes of
\* its string
BasicAdmin == [ascii |-> TRUE, basic |-> TRUE, user_id |-> "admin"]
MalformedBasic == [ascii |-> TRUE, basic |-> FALSE, user_id |-> ""]
\* "Basic " followed by the byte 0xFF
NotAsciiBasic == [ascii |-> FALSE, basic |-> FALSE, user_id |-> ""]

Tokens == {Uuid_new_v4(n) : n \in 1..MaxTokens}

\* (X-Auth-Token, Authorization) pairs
NoCreds == <<None, None>>
BasicCreds == <<None, Some(BasicAdmin)>>
TokenCreds == {<<Some(t), None>> : t \in Tokens}
CoreCreds == {NoCreds, BasicCreds} \cup TokenCreds
OddCreds ==
    { <<None, Some(MalformedBasic)>>, <<Some(Uuid_new_v4(1)), Some(BasicAdmin)>>,
      <<Some(NotAsciiToken), None>>, <<None, Some(NotAsciiBasic)>> }

P_admin == Object(<< <<"UserName", JStr("admin")>>, <<"Password", JStr("admin")>> >>)
P_username_number == Object(<< <<"UserName", JNum(7)>>, <<"Password", JStr("admin")>> >>)
P_empty == JObj(EmptyMap)
P_array == JArr(<<>>)
P_timeout == Object(<< <<"SessionTimeout", JNum(300)>> >>)
P_timeout_600 == Object(<< <<"SessionTimeout", JNum(600)>> >>)
P_timeout_string == Object(<< <<"SessionTimeout", JStr("300")>> >>)
P_timeout_negative == Object(<< <<"SessionTimeout", JNum(-1)>> >>)
P_timeout_fraction == Object(<< <<"SessionTimeout", JFloat("1.5")>> >>)
Payloads ==
    {P_admin, P_username_number, P_empty, P_array, P_timeout, P_timeout_600, P_timeout_string}

MembersUri == Append(SessionsUri, "Members")
MissingUri == <<"redfish", "v1", "notfound">>
RedfishUri == <<"redfish">>
MetadataUri == <<"redfish", "v1", "$metadata">>
ODataUri == <<"redfish", "v1", "odata">>
SessionUri(k) == Append(SessionsUri, to_string(k))

StaticPaths == {RedfishUri, MetadataUri, ODataUri}
HookedPaths == {SessionServiceUri, SessionsUri, MembersUri}
TreePaths ==
    HookedPaths \cup {RootUri, AccountsUri, AdminUri, MissingUri}
    \cup {SessionUri(k) : k \in 1..MaxTokens}
Paths == StaticPaths \cup TreePaths

Bodyless == {"GET", "HEAD", "DELETE"}
WithBody == {"POST", "PATCH"}

\* Well-formed requests without an OData-Version header
CoreRequests ==
    { Request(m, p, Headers(None, c[1], c[2], FALSE), NoPayload) :
        m \in Bodyless, p \in Paths, c \in CoreCreds }
    \cup
    { Request(m, p, Headers(None, c[1], c[2], TRUE), JsonPayload(v)) :
        m \in WithBody, p \in HookedPaths, c \in CoreCreds, v \in Payloads }
    \cup
    { Request(m, p, Headers(None, c[1], c[2], TRUE), JsonPayload(P_empty)) :
        m \in WithBody, p \in Paths \ HookedPaths, c \in CoreCreds }

\* Requests with an OData-Version header
ODataRequests ==
    { Request(m, p, Headers(Some(o), c[1], c[2], FALSE), NoPayload) :
        m \in Bodyless, p \in Paths, c \in {NoCreds, BasicCreds}, o \in {"4.0", "4.1"} }
    \cup
    { Request(m, p, Headers(Some(o), c[1], c[2], TRUE), JsonPayload(v)) :
        m \in WithBody, p \in Paths, c \in {NoCreds, BasicCreds},
        o \in {"4.0", "4.1"}, v \in {P_admin, P_timeout} }

\* PATCHes of the session service whose SessionTimeout is a number that is
\* not a u64
NumberRequests ==
    { Request("PATCH", SessionServiceUri, Headers(None, c[1], c[2], TRUE), JsonPayload(v)) :
        c \in {NoCreds, BasicCreds}, v \in {P_timeout_negative, P_timeout_fraction} }

\* Requests with a malformed Authorization header, with both credentials, or
\* with a header value that is not visible ASCII
OddRequests ==
    { Request(m, p, Headers(None, c[1], c[2], FALSE), NoPayload) :
        m \in Bodyless, p \in {RootUri, SessionServiceUri, SessionUri(1)}, c \in OddCreds }
    \cup
    { Request(m, p, Headers(None, c[1], c[2], TRUE), JsonPayload(v)) :
        m \in WithBody, p \in {SessionServiceUri, SessionsUri}, c \in OddCreds,
        v \in {P_admin, P_timeout} }

\* POST and PATCH requests the Json extractor rejects
RejectedRequests ==
    { Request(m, p, Headers(o, c[1], c[2], FALSE), JsonPayload(P_admin)) :
        m \in WithBody, p \in {SessionServiceUri, SessionsUri, MissingUri},
        c \in {NoCreds, BasicCreds}, o \in {None, Some("4.1")} }
    \cup
    { Request(m, p, Headers(o, c[1], c[2], TRUE), BrokenPayload) :
        m \in WithBody, p \in {SessionServiceUri, SessionsUri, MissingUri},
        c \in {NoCreds, BasicCreds}, o \in {None, Some("4.1")} }

\* Requests whose path ends in slashes
SlashRequests ==
    { Request(m, p \o s, Headers(None, c[1], c[2], FALSE), NoPayload) :
        m \in {"GET", "DELETE"}, p \in {RedfishUri, RootUri, SessionsUri, SessionUri(1)},
        c \in {NoCreds, BasicCreds}, s \in {<<"">>, <<"", "">>} }
    \cup
    { Request("POST", p \o <<"">>, Headers(None, c[1], c[2], TRUE), JsonPayload(P_admin)) :
        p \in {SessionsUri, MembersUri}, c \in {NoCreds, BasicCreds} }

\* POSTs to <c>/Members where c is a collection without a post hook, a
\* resource, or nothing
MembersRequests ==
    { Request("POST", Append(p, "Members"), Headers(None, c[1], c[2], TRUE),
              JsonPayload(P_empty)) :
        p \in {AccountsUri, SessionServiceUri, MissingUri}, c \in {NoCreds, BasicCreds} }

Requests ==
    CoreRequests \cup ODataRequests \cup NumberRequests \cup OddRequests
    \cup RejectedRequests
    \cup SlashRequests \cup MembersRequests

NoRequest == Request("NONE", <<>>, Headers(None, None, None, FALSE), NoPayload)

---------------------------------------------------------------------------
(* The state machine.  tree and sessions are AppState; poisoned is the      *)
(* poison flag of the tree mutex; drawn counts the tokens drawn.  req and   *)
(* resp are the last request and its response, pre the state it was served  *)
(* from, and hist what a client has observed of the service so far.  node   *)
(* is the node handed to the response builders when they are run on their   *)
(* own (SpecAllow); the service itself leaves it None.  flight holds the     *)
(* requests being handled at once, each at its own position in its handler,  *)
(* and the holders of the two mutexes (SpecConc); where a handler is taken   *)
(* as one step nothing is in flight.                                        *)

VARIABLES tree, sessions, poisoned, drawn, req, resp, pre, hist, node, flight

vars == <<tree, sessions, poisoned, drawn, req, resp, pre, hist, node, flight>>

State == [ tree |-> tree, sessions |-> sessions, poisoned |-> poisoned, drawn |-> drawn ]

MaxInFlight == 3

\* The handler invocations that may run at once, one request each
Tasks == 1..MaxInFlight

\* A handler invocation: its request, its position, its locals (the resolved
\* user, the resource the tree operation works on, the token drawn) and its
\* response
IdleTask ==
    [ pc |-> "idle", req |-> NoRequest, user |-> None, resource |-> None,
      token |-> None, resp |-> NoResponse ]

\* Nothing in flight: both mutexes free (holder 0), nobody has locked the tree
IdleFlight ==
    [ tasks |-> [t \in Tasks |-> IdleTask], tree_guard |-> 0, sessions_guard |-> 0,
      order |-> <<>> ]

\* The resources of a tree in creation order, as add_resource saw them
InitialLog ==
    << RootUri, SessionServiceUri, AccountServiceUri, AdminUri,
       AdministratorUri, OperatorUri, ReadOnlyUri >>

\* What the client has seen: issued holds each X-Auth-Token of a 201 with its
\* Location and the UserName of the request that obtained it; revoked are the tokens whose Location a DELETE answered 204;
\* live are the Locations of 201s not since deleted with a 204, gone those
\* deleted with a 204 and not since returned by a 201; log lists the keys of
\* the resource map in the order they were inserted; timeout is the
\* SessionTimeout of the last PATCH answered 200, before the first one the
\* value the embedder installed
InitialHist ==
    [ issued |-> {}, revoked |-> {}, live |-> {}, gone |-> {}, log |-> InitialLog,
      timeout |-> JNum(600) ]

RECURSIVE SetToSeq(_)
SetToSeq(S) ==
    IF S = {} THEN <<>>
    ELSE LET x == CHOOSE x \in S : TRUE IN <<x>> \o SetToSeq(S \ {x})

Keep(log, keys) == SelectSeq(log, LAMBDA u : u \in keys)

Observe(h, r, out) ==
    LET target == UriStr(trim_trailing_slash(r.path))
        created == out.resp.status = 201
        deleted == r.method = "DELETE" /\ out.resp.status = 204
        location == Unwrap(out.resp.location)
        before == DOMAIN tree.resources
        after == DOMAIN out.tree.resources
    IN  [ issued |-> IF created /\ IsSome(out.resp.x_auth_token)
                     THEN h.issued \cup {<<Unwrap(out.resp.x_auth_token), location,
                                            r.payload.json.o["UserName"]>>}
                     ELSE h.issued,
          revoked |-> IF deleted
                      THEN h.revoked \cup {p[1] : p \in {q \in h.issued : q[2] = target}}
                      ELSE h.revoked,
          live |-> IF created THEN h.live \cup {location}
                   ELSE IF deleted THEN h.live \ {target} ELSE h.live,
          gone |-> IF created THEN h.gone \ {location}
                   ELSE IF deleted THEN h.gone \cup {target} ELSE h.gone,
          log |-> Keep(h.log, after) \o SetToSeq(after \ before),
          timeout |-> IF r.method = "PATCH" /\ out.resp.status = 200
                      THEN r.payload.json.o["SessionTimeout"]
                      ELSE h.timeout ]

Init ==
    /\ tree = get_mock_tree
    /\ sessions = <<>>
    /\ poisoned = FALSE
    /\ drawn = 0
    /\ req = NoRequest
    /\ resp = NoResponse
    /\ pre = [ state |-> State, hist |-> InitialHist ]
    /\ hist = InitialHist
    /\ node = None
    /\ flight = IdleFlight

\* The service takes request r and answers it with outcome out
Handle(r, out) ==
    /\ out.drawn <= MaxTokens
    /\ tree' = out.tree
    /\ sessions' = out.sessions
    /\ poisoned' = out.poisoned
    /\ drawn' = out.drawn
    /\ req' = r
    /\ resp' = out.resp
    /\ pre' = [ state |-> State, hist |-> hist ]
    /\ hist' = Observe(hist, r, out)
    /\ node' = node
    /\ flight' = flight

Routed(r, matched, methods) ==
    /\ route(trim_trailing_slash(r.path)) = matched
    /\ r.method \in methods

\* Request r is served from the current state
Answer(r) == \E out \in {serve(State, r)} : Handle(r, out)

GetRedfish ==
    /\ req = NoRequest
    /\ \E r \in Requests : Routed(r, "/redfish", {"GET", "HEAD"}) /\ Answer(r)

GetODataMetadataDoc ==
    /\ req = NoRequest
    /\ \E r \in Requests : Routed(r, "/redfish/v1/$metadata", {"GET", "HEAD"}) /\ Answer(r)

GetODataServiceDoc ==
    /\ req = NoRequest
    /\ \E r \in Requests : Routed(r, "/redfish/v1/odata", {"GET", "HEAD"}) /\ Answer(r)

Getter ==
    /\ req = NoRequest
    /\ \E r \in Requests : Routed(r, "/redfish/*path", {"GET", "HEAD"}) /\ Answer(r)

Deleter ==
    /\ req = NoRequest
    /\ \E r \in Requests : Routed(r, "/redfish/*path", {"DELETE"}) /\ Answer(r)

Poster ==
    /\ req = NoRequest
    /\ \E r \in Requests : Routed(r, "/redfish/*path", {"POST"}) /\ Answer(r)

Patcher ==
    /\ req = NoRequest
    /\ \E r \in Requests : Routed(r, "/redfish/*path", {"PATCH"}) /\ Answer(r)

\* A method the matched route has no handler for
MethodNotAllowed ==
    /\ req = NoRequest
    /\ \E r \in Requests :
          /\ route(trim_trailing_slash(r.path)) # "/redfish/*path"
          /\ r.method \in {"POST", "PATCH", "DELETE"}
          /\ Answer(r)

\* The response has been sent; the service waits for the next request
Deliver ==
    /\ req # NoRequest
    /\ req' = NoRequest
    /\ resp' = NoResponse
    /\ pre' = [ state |-> State, hist |-> hist ]
    /\ UNCHANGED <<tree, sessions, poisoned, drawn, hist, node, flight>>

Next ==
    \/ GetRedfish
    \/ GetODataMetadataDoc
    \/ GetODataServiceDoc
    \/ Getter
    \/ Deleter
    \/ Poster
    \/ Patcher
    \/ MethodNotAllowed
    \/ Deliver

Spec == Init /\ [][Next]_vars

---------------------------------------------------------------------------
(* What a client observes, in the terms the properties below are stated in  *)

\* The last request has been answered (or dropped) and not yet delivered
Responded == req # NoRequest

\* The URI the request names
Target == trim_trailing_slash(req.path)
TargetStr == UriStr(Target)

\* The tokens issued to the client and not revoked since
ValidTokens(h) == {p[1] : p \in h.issued} \ h.revoked

\* The request carries no OData-Version header, or "4.0"
ODataAcceptable(r) ==
    IsNone(r.headers.odata_version) \/ r.headers.odata_version = Some("4.0")

\* The request's body, if its method has one, is JSON sent as application/json
BodyWellFormed(r) ==
    r.method \in WithBody => r.headers.content_type_json /\ r.payload.valid

\* The request is one the pipeline carries as far as identity resolution: it
\* is handled by the tree, its OData-Version is acceptable, its body is JSON
ReachesIdentity ==
    /\ Responded
    /\ route(Target) = "/redfish/*path"
    /\ ODataAcceptable(req)
    /\ BodyWellFormed(req)

\* The request carries a token that is valid, or no token and a well-formed
\* Authorization: Basic header
Authenticated(h, r) ==
    IF IsSome(r.headers.x_auth_token)
    THEN Unwrap(r.headers.x_auth_token) \in ValidTokens(h)
    ELSE IsSome(r.headers.authorization) /\ Unwrap(r.headers.authorization).basic

\* The request carries neither a valid token nor an Authorization header
NoCredentials(h, r) ==
    /\ IsNone(r.headers.authorization)
    /\ IsSome(r.headers.x_auth_token) =>
           Unwrap(r.headers.x_auth_token) \notin ValidTokens(h)

\* The request fails identity resolution or resolves to no identity
Unauthenticated(h, r) ==
    IF IsSome(r.headers.x_auth_token)
    THEN Unwrap(r.headers.x_auth_token) \notin ValidTokens(h)
    ELSE IsNone(r.headers.authorization) \/ ~Unwrap(r.headers.authorization).basic

\* The request left the tree and the session store as they were
StateUnchanged == tree = pre.state.tree /\ sessions = pre.state.sessions

---------------------------------------------------------------------------
(* C1 .. C4: sessions and authentication                                    *)

\* C1: session revocation. After a DELETE of a session resource has been
\* answered 204, every later request that presents the X-Auth-Token issued
\* with that session and that the pipeline carries to identity resolution is
\* answered 401, whatever requests came in between.
C1_RevokedTokenRejected ==
    ( /\ ReachesIdentity
      /\ IsSome(req.headers.x_auth_token)
      /\ Unwrap(req.headers.x_auth_token) \in pre.hist.revoked )
    => resp.status = 401

\* C1: a revoked token is presented and rejected with 401
C1_RevokedTokenPresented ==
    /\ ReachesIdentity
    /\ IsSome(req.headers.x_auth_token)
    /\ Unwrap(req.headers.x_auth_token) \in pre.hist.revoked
    /\ resp.status = 401
    /\ Len(sessions) > 0

\* The URIs, with the methods, that need no identity
Anonymous(r) ==
    \/ trim_trailing_slash(r.path) \in {RedfishUri, RootUri, MetadataUri, ODataUri}
    \/ r.method = "POST" /\ strip_members(trim_trailing_slash(r.path)) = SessionsUri

\* C2: auth gating. On every URI but the anonymous ones, a GET, POST, PATCH or
\* DELETE with an acceptable OData-Version that carries neither a valid
\* X-Auth-Token nor an Authorization header is answered 401 with
\* WWW-Authenticate: Basic realm="simple".
C2_AuthGating ==
    ( /\ ReachesIdentity
      /\ req.method \in {"GET", "POST", "PATCH", "DELETE"}
      /\ ~Anonymous(req)
      /\ NoCredentials(pre.hist, req) )
    => /\ resp.status = 401
       /\ resp.www_authenticate = Some("Basic realm=\"simple\"")

\* C2: a request without credentials to a gated URI is answered 401
C2_GatedRequestRejected ==
    /\ ReachesIdentity
    /\ req.method = "GET"
    /\ Target = SessionsUri
    /\ NoCredentials(pre.hist, req)
    /\ resp.status = 401
    /\ resp.www_authenticate = Some("Basic realm=\"simple\"")

\* C3: authentication precedes the existence and capability checks. An
\* unauthenticated POST (but to the session collection), PATCH or DELETE that
\* the pipeline carries to identity resolution is answered 401, whether the
\* URI exists or not and whether the node supports the verb or not, and the
\* tree and the session store are left as they were.
C3_AuthBeforeLookup ==
    ( /\ ReachesIdentity
      /\ req.method \in {"POST", "PATCH", "DELETE"}
      /\ ~(req.method = "POST" /\ strip_members(Target) = SessionsUri)
      /\ Unauthenticated(pre.hist, req) )
    => /\ resp.status = 401
       /\ StateUnchanged

\* C3: an unauthenticated DELETE of a URI that does not exist is answered 401
C3_MissingUriStill401 ==
    /\ ReachesIdentity
    /\ req.method = "DELETE"
    /\ Target = MissingUri
    /\ Unauthenticated(pre.hist, req)
    /\ resp.status = 401
    /\ StateUnchanged

\* C4: URI fidelity. An authenticated GET of u that the pipeline carries to
\* identity resolution returns 200 with @odata.id = u from the 201 whose
\* Location was u until u is deleted, and 404 from the 204 of DELETE u until a
\* later 201 returns u again.
C4_UriFidelity ==
    ( /\ ReachesIdentity
      /\ req.method = "GET"
      /\ Authenticated(pre.hist, req) )
    => /\ TargetStr \in pre.hist.live =>
              /\ resp.status = 200
              /\ resp.body.t = "obj"
              /\ resp.body.o["@odata.id"] = JStr(TargetStr)
       /\ TargetStr \in pre.hist.gone => resp.status = 404

\* C4: a created URI is read back, and a deleted URI is found missing
C4_CreatedRead ==
    /\ ReachesIdentity
    /\ req.method = "GET"
    /\ Authenticated(pre.hist, req)
    /\ TargetStr \in pre.hist.live
    /\ resp.status = 200
    /\ pre.hist.gone # {}

---------------------------------------------------------------------------
(* C5 .. C7: the tree's invariants                                          *)

\* The resources whose collection field names c, in creation order
CreatedIn(c) ==
    SelectSeq(hist.log, LAMBDA u : /\ u \in DOMAIN tree.resources
                                   /\ tree.resources[u].collection = Some(c))

\* C5: member coherence. In every reachable state each collection's member
\* sequence lists exactly the existing resources whose collection field is
\* that collection's URI, once each, in the order they were created; a delete
\* shifts the later members left.
C5_MemberCoherence ==
    \A c \in DOMAIN tree.collections : tree.collections[c].members = CreatedIn(c)

\* C5: the first of three sessions has been deleted and the two later ones
\* have moved up in order
C5_LaterMembersShifted ==
    /\ Responded
    /\ req.method = "DELETE"
    /\ resp.status = 204
    /\ Len(pre.state.tree.collections[SessionsUri].members) = 3
    /\ Target = pre.state.tree.collections[SessionsUri].members[1]
    /\ tree.collections[SessionsUri].members =
           Tail(pre.state.tree.collections[SessionsUri].members)

\* C6: no dangling members (I1). In every reachable state each URI in a
\* collection's member sequence is a key of the resource map and the resource
\* there has its collection field equal to the collection's URI.
C6_NoDanglingMembers ==
    \A c \in DOMAIN tree.collections :
        \A i \in 1..Len(tree.collections[c].members) :
            LET member == tree.collections[c].members[i]
            IN  /\ member \in DOMAIN tree.resources
                /\ tree.resources[member].collection = Some(c)

\* C6: a session has been deleted while another one stays listed
C6_MemberDeleted ==
    /\ Responded
    /\ req.method = "DELETE"
    /\ resp.status = 204
    /\ Target \notin DOMAIN tree.resources
    /\ Contains(pre.state.tree.collections[SessionsUri].members, Target)
    /\ Len(tree.collections[SessionsUri].members) >= 1

\* C7: registry coverage (I4). In every reachable state, also after a POST
\* has created resources, the schema type of every resource and of every
\* collection is in the tree's type registry.
C7_RegistryCoverage ==
    /\ \A u \in DOMAIN tree.resources :
           Contains(tree.resource_types, tree.resources[u].resource_type)
    /\ \A c \in DOMAIN tree.collections :
           Contains(tree.collection_types, tree.collections[c].resource_type)

\* C7: a session has been created by a POST and answered 201
C7_ResourceCreated ==
    /\ Responded
    /\ req.method = "POST"
    /\ resp.status = 201
    /\ DOMAIN tree.resources # DOMAIN pre.state.tree.resources

---------------------------------------------------------------------------
(* C8, C9: the OData-Version precondition                                   *)

\* C8: a request with an OData-Version header other than "4.0" is answered
\* 412 on every routed URI and for every method, and changes no state.
C8_BadODataVersion412 ==
    (Responded /\ ~ODataAcceptable(req)) => resp.status = 412 /\ StateUnchanged

\* C8: a GET of a tree URI with OData-Version 4.1 is answered 412
C8_TreeRequestRefused ==
    /\ Responded
    /\ req.method = "GET"
    /\ Target = SessionServiceUri
    /\ req.headers.odata_version = Some("4.1")
    /\ resp.status = 412

\* The same request without its OData-Version header
WithoutODataVersion(r) == [r EXCEPT !.headers.odata_version = None]

\* The status the request would get from the state it was served from if it
\* carried no OData-Version header
OtherwiseStatus == serve(pre.state, WithoutODataVersion(req)).resp.status

\* C9: the OData-Version check comes before identity resolution and before
\* the tree lookup. A request with a bad OData-Version that would otherwise be
\* answered 401 (no credentials) or 404 (no such URI) is answered 412.
C9_ODataCheckFirst ==
    (Responded /\ ~ODataAcceptable(req) /\ OtherwiseStatus \in {401, 404})
    => resp.status = 412

\* C9: a DELETE without credentials and with OData-Version 4.1 is answered
\* 412 where it would otherwise be answered 401
C9_UnauthenticatedGets412 ==
    /\ Responded
    /\ req.method = "DELETE"
    /\ req.headers.odata_version = Some("4.1")
    /\ IsNone(req.headers.x_auth_token) /\ IsNone(req.headers.authorization)
    /\ OtherwiseStatus = 401
    /\ resp.status = 412

---------------------------------------------------------------------------
(* C10: the response builders run on their own, on a node an embedder's     *)
(* tree may hand them: any capability bits, with or without a describedBy   *)

AllowedMethodsSet == [get : BOOLEAN, delete : BOOLEAN, patch : BOOLEAN, post : BOOLEAN]

\* A RedfishNode of some embedder's tree
EmbedderNode(uri, allowed, described_by) ==
    [ uri |-> uri,
      body |-> Object(<< <<"@odata.id", JStr(UriStr(uri))>>,
                         <<"@odata.etag", JStr("\"FIXME\"")>> >>),
      allowed |-> allowed,
      described_by |-> described_by ]

EmbedderNodes ==
    { EmbedderNode(u, a, d) :
        u \in {RootUri, SessionsUri, SessionUri(1)},
        a \in AllowedMethodsSet,
        d \in {None, Some("https://redfish.dmtf.org/schemas/v1/Session.v1_6_0.json")} }

InitAllow ==
    /\ tree = get_mock_tree
    /\ sessions = <<>>
    /\ poisoned = FALSE
    /\ drawn = 0
    /\ req = NoRequest
    /\ resp = NoResponse
    /\ pre = [ state |-> State, hist |-> InitialHist ]
    /\ hist = InitialHist
    /\ node \in {Some(n) : n \in EmbedderNodes}
    /\ flight = IdleFlight

\* get_node_get_response(node): the 200 of getter and patcher
NodeGetResponse ==
    /\ resp = NoResponse
    /\ resp' = get_node_get_response(Unwrap(node))
    /\ UNCHANGED <<tree, sessions, poisoned, drawn, req, pre, hist, node, flight>>

\* get_node_created_response(node, additional_headers): the 201 of poster
NodeCreatedResponse ==
    /\ resp = NoResponse
    /\ \E x_auth_token \in {None, Some(Uuid_new_v4(1))} :
           resp' = get_node_created_response(Unwrap(node), x_auth_token)
    /\ UNCHANGED <<tree, sessions, poisoned, drawn, req, pre, hist, node, flight>>

\* get_error_response(MethodNotAllowed(node.get_allowed_methods())): the 405
MethodNotAllowedResponse ==
    /\ resp = NoResponse
    /\ resp' = get_error_response(ErrMethodNotAllowed(Unwrap(node).allowed))
    /\ UNCHANGED <<tree, sessions, poisoned, drawn, req, pre, hist, node, flight>>

NextAllow ==
    \/ NodeGetResponse
    \/ NodeCreatedResponse
    \/ MethodNotAllowedResponse

SpecAllow == InitAllow /\ [][NextAllow]_vars

\* The Allow value the law prescribes for each of the 16 combinations of the
\* capability bits <<get, delete, patch, post>>
AllowLaw(a) ==
    CASE <<a.get, a.delete, a.patch, a.post>> = <<FALSE, FALSE, FALSE, FALSE>> -> ""
      [] <<a.get, a.delete, a.patch, a.post>> = <<FALSE, FALSE, FALSE, TRUE>> -> "POST"
      [] <<a.get, a.delete, a.patch, a.post>> = <<FALSE, FALSE, TRUE, FALSE>> -> "PATCH"
      [] <<a.get, a.delete, a.patch, a.post>> = <<FALSE, FALSE, TRUE, TRUE>> -> "PATCH,POST"
      [] <<a.get, a.delete, a.patch, a.post>> = <<FALSE, TRUE, FALSE, FALSE>> -> "DELETE"
      [] <<a.get, a.delete, a.patch, a.post>> = <<FALSE, TRUE, FALSE, TRUE>> -> "DELETE,POST"
      [] <<a.get, a.delete, a.patch, a.post>> = <<FALSE, TRUE, TRUE, FALSE>> -> "DELETE,PATCH"
      [] <<a.get, a.delete, a.patch, a.post>> = <<FALSE, TRUE, TRUE, TRUE>> ->
             "DELETE,PATCH,POST"
      [] <<a.get, a.delete, a.patch, a.post>> = <<TRUE, FALSE, FALSE, FALSE>> -> "GET,HEAD"
      [] <<a.get, a.delete, a.patch, a.post>> = <<TRUE, FALSE, FALSE, TRUE>> ->
             "GET,HEAD,POST"
      [] <<a.get, a.delete, a.patch, a.post>> = <<TRUE, FALSE, TRUE, FALSE>> ->
             "GET,HEAD,PATCH"
      [] <<a.get, a.delete, a.patch, a.post>> = <<TRUE, FALSE, TRUE, TRUE>> ->
             "GET,HEAD,PATCH,POST"
      [] <<a.get, a.delete, a.patch, a.post>> = <<TRUE, TRUE, FALSE, FALSE>> ->
             "GET,HEAD,DELETE"
      [] <<a.get, a.delete, a.patch, a.post>> = <<TRUE, TRUE, FALSE, TRUE>> ->
             "GET,HEAD,DELETE,POST"
      [] <<a.get, a.delete, a.patch, a.post>> = <<TRUE, TRUE, TRUE, FALSE>> ->
             "GET,HEAD,DELETE,PATCH"
      [] <<a.get, a.delete, a.patch, a.post>> = <<TRUE, TRUE, TRUE, TRUE>> ->
             "GET,HEAD,DELETE,PATCH,POST"

\* C10: Allow law. Every 200, 201 and 405 response built for a node carries
\* an Allow header equal to the subsequence of GET,HEAD,DELETE,PATCH,POST its
\* capability bits select, for all 16 combinations of the four bits.
C10_AllowLaw ==
    (IsSome(node) /\ resp.status \in {200, 201, 405})
    => resp.allow = Some(AllowLaw(Unwrap(node).allowed))

\* C10: a 405 has been built for a node that allows PATCH and POST but not
\* DELETE
C10_PatchAndPostAllowed ==
    /\ IsSome(node)
    /\ Unwrap(node).allowed = [get |-> TRUE, delete |-> FALSE, patch |-> TRUE, post |-> TRUE]
    /\ resp.status = 405
    /\ resp.allow = Some("GET,HEAD,PATCH,POST")

---------------------------------------------------------------------------
(* C11 .. C13: POST to <c>/Members, the collection body, the envelope       *)

\* The request is a POST to <c>/Members, c being a URI of the tree's namespace
PostToMembers ==
    /\ Responded
    /\ req.method = "POST"
    /\ route(Target) = "/redfish/*path"
    /\ Last(Target) = "Members"
    /\ route(Front(Target)) = "/redfish/*path"

\* The outcome of the same request sent to <c>, from the state the request
\* was served from
PostToCollection == serve(pre.state, [req EXCEPT !.path = Front(Target)])

\* C11: POST /Members equivalence. A POST to <c>/Members gives the same
\* response (status, headers, body) and leaves the same tree and session
\* store as the POST with the same headers and body to <c> from the same
\* state, whether c is a postable collection or not.
C11_MembersEquivalence ==
    PostToMembers =>
        /\ resp = PostToCollection.resp
        /\ tree = PostToCollection.tree
        /\ sessions = PostToCollection.sessions

\* C11: a POST to the session collection's /Members has created the second
\* session
C11_PostedToMembers ==
    /\ PostToMembers
    /\ Front(Target) = SessionsUri
    /\ resp.status = 201
    /\ resp.location = Some("/redfish/v1/SessionService/Sessions/2")
    /\ Len(sessions) = Len(pre.state.sessions) + 1

\* C12: count law. In every reachable state and for every collection, the
\* Members@odata.count of the synthesized body equals the length of its
\* Members array, which equals the length of the collection's member sequence.
C12_CountLaw ==
    \A c \in DOMAIN tree.collections :
        LET body == Collection_get_body(tree.collections[c]).o
        IN  /\ body["Members@odata.count"] = JNum(Len(body["Members"].a))
            /\ Len(body["Members"].a) = Len(tree.collections[c].members)

\* C12: the session collection is read with two members left after a delete
C12_TwoMembersCounted ==
    /\ Responded
    /\ req.method = "GET"
    /\ Target = SessionsUri
    /\ resp.status = 200
    /\ pre.hist.gone # {}
    /\ resp.body.o["Members@odata.count"] = JNum(2)
    /\ Len(resp.body.o["Members"].a) = 2

\* The response comes from one of the service's handlers, not from the
\* router or an extractor
FromHandler ==
    /\ Responded
    /\ route(Target) = "/redfish/*path" \/ req.method \in {"GET", "HEAD"}
    /\ resp.status \in {200, 201, 204, 401, 404, 405, 412}

\* C13: envelope headers. Every response a handler produces, with any of
\* the statuses 200, 201, 204, 401, 404, 405, 412, carries OData-Version: 4.0
\* and Cache-Control: no-cache.
C13_EnvelopeHeaders ==
    FromHandler =>
        /\ resp.odata_version = Some("4.0")
        /\ resp.cache_control = Some("no-cache")

\* C13: a DELETE of a session has been answered 204
C13_NoContentAnswered ==
    /\ FromHandler
    /\ req.method = "DELETE"
    /\ resp.status = 204
    /\ resp.cache_control = Some("no-cache")

---------------------------------------------------------------------------
(* C14, C15: session creation                                               *)

\* A POST to the session collection (or its /Members) has been answered 201
SessionCreated ==
    /\ Responded
    /\ req.method = "POST"
    /\ strip_members(Target) = SessionsUri
    /\ resp.status = 201

\* The resources the request added to the resource map
Added == DOMAIN tree.resources \ DOMAIN pre.state.tree.resources

\* The UserName the client sent when it obtained the token
IssuedUserName(h, token) == {p[3] : p \in {q \in h.issued : q[1] = token}}

\* The request presents a token the client obtained and has not revoked
PresentsValidToken ==
    /\ ReachesIdentity
    /\ IsSome(req.headers.x_auth_token)
    /\ Unwrap(req.headers.x_auth_token) \in ValidTokens(pre.hist)

\* C14: session creation. Every successful POST to the session collection,
\* anonymous or authenticated, adds exactly one session {token, username, uri}
\* to the session store, uri being the URI of the one resource created and
\* username the UserName of the request body, and returns that token in
\* X-Auth-Token. From then on a request with that token is resolved to that
\* username and is accepted: it is answered by the tree operation, not
\* rejected with 401 and not dropped.
C14_SessionCreation ==
    /\ SessionCreated =>
          /\ IsSome(resp.x_auth_token)
          /\ \E uri \in Added :
                /\ Added = {uri}
                /\ resp.location = Some(UriStr(uri))
                /\ sessions = Append(pre.state.sessions,
                                     [ token |-> Unwrap(resp.x_auth_token),
                                       username |-> req.payload.json.o["UserName"].s,
                                       uri |-> uri ])
    /\ PresentsValidToken =>
          /\ \A u \in IssuedUserName(pre.hist, Unwrap(req.headers.x_auth_token)) :
                get_token_user(Unwrap(req.headers.x_auth_token), pre.state.sessions)
                    = Some(u.s)
          /\ resp.status \in {200, 201, 204, 404, 405}

\* C14: a POST that presents a token issued earlier has created a second
\* session and has been given a new token
C14_SecondSessionByToken ==
    /\ SessionCreated
    /\ PresentsValidToken
    /\ Len(pre.state.sessions) = 1
    /\ Len(sessions) = 2
    /\ sessions[2].token = Unwrap(resp.x_auth_token)
    /\ sessions[2].token # Unwrap(req.headers.x_auth_token)
    /\ sessions[2].username = "admin"

\* The numeric Ids of the members of a collection
MemberIds(members) ==
    {Unwrap(parse(get_uri_id(members[i]))) : i \in 1..Len(members)}

\* The Id the next session is to get: 1 for an empty collection, else one
\* more than the largest Id among the members
NextId(members) ==
    IF Len(members) = 0 THEN 1
    ELSE 1 + (CHOOSE n \in MemberIds(members) : \A k \in MemberIds(members) : k <= n)

\* C15: session Id assignment. A successful POST to the session collection
\* creates <collection>/<n>, n being 1 when the collection has no members and
\* otherwise 1 + the largest numeric Id among its members at that moment; the
\* new URI is not the URI of any resource or collection that exists at that
\* moment, after any sequence of creates and deletes.
C15_SessionIdAssignment ==
    SessionCreated =>
        LET members == pre.state.tree.collections[SessionsUri].members
            uri == Append(SessionsUri, to_string(NextId(members)))
        IN  /\ Added = {uri}
            /\ resp.location = Some(UriStr(uri))
            /\ tree.resources[uri].body["Id"] = JStr(to_string(NextId(members)))
            /\ uri \notin DOMAIN pre.state.tree.resources
            /\ uri \notin DOMAIN pre.state.tree.collections
            /\ ~Contains(members, uri)

\* C15: with session 2 alone left after the delete of session 1, the next
\* session is /redfish/v1/SessionService/Sessions/3
C15_CreatedAfterGap ==
    /\ SessionCreated
    /\ pre.state.tree.collections[SessionsUri].members = <<SessionUri(2)>>
    /\ resp.location = Some("/redfish/v1/SessionService/Sessions/3")
    /\ tree.collections[SessionsUri].members = <<SessionUri(2), SessionUri(3)>>

---------------------------------------------------------------------------
(* C16 .. C18: the error mapping of create, delete and patch                *)

\* The request has method m, is carried to identity resolution and is
\* authenticated
AuthenticatedRequest(m) ==
    /\ ReachesIdentity
    /\ req.method = m
    /\ Authenticated(pre.hist, req)

\* The tree the request was served from
PreTree == pre.state.tree

\* The Allow value of the capabilities of the node at uri in tree t
AllowOf(t, uri) ==
    IF uri \in DOMAIN t.resources
    THEN AllowedMethods_to_string(Resource_get_allowed_methods(t.resources[uri]))
    ELSE AllowedMethods_to_string(Collection_get_allowed_methods(t.collections[uri]))

\* The response is a 405 whose Allow is that of the node at uri
Refused405(uri) ==
    /\ resp.status = 405
    /\ resp.allow = Some(AllowOf(PreTree, uri))

\* C16: create error mapping. An authenticated POST to a collection without a
\* post hook is answered 405 with Allow from that collection's capabilities,
\* to a resource 405 with Allow from that resource's capabilities, to a URI
\* that names neither 404; in all three cases no resource is added and no
\* member list changes.
C16_CreateErrorMapping ==
    AuthenticatedRequest("POST") =>
        LET uri == strip_members(Target)
        IN  /\ ( /\ uri \in DOMAIN PreTree.collections
                 /\ IsNone(PreTree.collections[uri].post) )
                => Refused405(uri) /\ StateUnchanged
            /\ uri \in DOMAIN PreTree.resources
                => Refused405(uri) /\ StateUnchanged
            /\ uri \notin (DOMAIN PreTree.collections \cup DOMAIN PreTree.resources)
                => resp.status = 404 /\ StateUnchanged

\* C16: an authenticated POST to the account collection, which has no post
\* hook, is answered 405 with Allow: GET,HEAD
C16_PostToAccountsRefused ==
    /\ AuthenticatedRequest("POST")
    /\ Target = AccountsUri
    /\ resp.status = 405
    /\ resp.allow = Some("GET,HEAD")
    /\ StateUnchanged

\* C17: delete error mapping. An authenticated DELETE of a resource without a
\* delete hook is answered 405 with Allow from that resource's capabilities,
\* of a collection 405 with Allow from the collection's capabilities, of an
\* unknown URI 404; in all three cases the resource map, every member
\* sequence and the session store are unchanged.
C17_DeleteErrorMapping ==
    AuthenticatedRequest("DELETE") =>
        /\ ( /\ Target \in DOMAIN PreTree.resources
             /\ IsNone(PreTree.resources[Target].delete) )
            => Refused405(Target) /\ StateUnchanged
        /\ Target \in DOMAIN PreTree.collections
            => Refused405(Target) /\ StateUnchanged
        /\ Target \notin (DOMAIN PreTree.collections \cup DOMAIN PreTree.resources)
            => resp.status = 404 /\ StateUnchanged

\* C17: an authenticated DELETE of the session service, which has a patch hook
\* and no delete hook, is answered 405 with Allow: GET,HEAD,PATCH while a
\* session exists
C17_DeleteOfServiceRefused ==
    /\ AuthenticatedRequest("DELETE")
    /\ Target = SessionServiceUri
    /\ resp.status = 405
    /\ resp.allow = Some("GET,HEAD,PATCH")
    /\ Len(sessions) = 1
    /\ StateUnchanged

\* The resource at uri has a patch hook
Patchable(t, uri) == uri \in DOMAIN t.resources /\ IsSome(t.resources[uri].patch)

\* All of the tree and the session store but the body of the resource at uri
\* is as it was, and of that body only property k may differ
OnlyPropertyChanged(uri, k) ==
    /\ sessions = pre.state.sessions
    /\ tree.collections = PreTree.collections
    /\ DOMAIN tree.resources = DOMAIN PreTree.resources
    /\ \A u \in DOMAIN tree.resources \ {uri} : tree.resources[u] = PreTree.resources[u]
    /\ [tree.resources[uri] EXCEPT !.body = EmptyMap]
           = [PreTree.resources[uri] EXCEPT !.body = EmptyMap]
    /\ DOMAIN tree.resources[uri].body = DOMAIN PreTree.resources[uri].body
    /\ \A x \in DOMAIN tree.resources[uri].body \ {k} :
           tree.resources[uri].body[x] = PreTree.resources[uri].body[x]

\* C18: patch. An authenticated PATCH of a resource with a patch hook applies
\* the hook and is answered 200 with the patched resource; the change
\* persists: every later authenticated GET of /redfish/v1/SessionService
\* returns the SessionTimeout of the last PATCH until the next one; all other
\* body properties, all other resources, all member lists and the session
\* store are unchanged. A PATCH of a resource without a patch hook or of a
\* collection is answered 405 with Allow from that node's capabilities, and
\* of an unknown URI 404, leaving the state as it was.
C18_Patch ==
    /\ AuthenticatedRequest("PATCH") =>
          /\ Patchable(PreTree, Target) =>
                /\ resp.status = 200
                /\ resp.body = JObj(tree.resources[Target].body)
                /\ resp.body.o["SessionTimeout"] = req.payload.json.o["SessionTimeout"]
                /\ OnlyPropertyChanged(Target, "SessionTimeout")
          /\ ( /\ Target \in DOMAIN PreTree.resources \cup DOMAIN PreTree.collections
               /\ ~Patchable(PreTree, Target) )
              => Refused405(Target) /\ StateUnchanged
          /\ Target \notin (DOMAIN PreTree.resources \cup DOMAIN PreTree.collections)
              => resp.status = 404 /\ StateUnchanged
    /\ (AuthenticatedRequest("GET") /\ Target = SessionServiceUri) =>
          /\ resp.status = 200
          /\ resp.body.o["SessionTimeout"] = pre.hist.timeout

\* C18: after a PATCH to 300 and the creation of a session, a GET of the
\* session service with that session's token returns SessionTimeout 300
C18_PatchedValueRead ==
    /\ AuthenticatedRequest("GET")
    /\ Target = SessionServiceUri
    /\ IsSome(req.headers.x_auth_token)
    /\ pre.hist.timeout = JNum(300)
    /\ resp.status = 200
    /\ resp.body.o["SessionTimeout"] = JNum(300)

---------------------------------------------------------------------------
(* C19, C20: the lifecycle of resources and of sessions                     *)

\* The resources the request removed from the resource map
Removed == DOMAIN PreTree.resources \ DOMAIN tree.resources

\* The resources the embedder installs, none of them with a delete hook, and
\* the collections it installs
Permanent ==
    { RootUri, SessionServiceUri, AccountServiceUri, AdminUri,
      AdministratorUri, OperatorUri, ReadOnlyUri }

Installed == {SessionsUri, AccountsUri, RolesUri}

\* C19: lifecycle frame. Across any sequence of requests the set of
\* collections never changes; a resource is added only by a POST answered 201
\* to a collection that has a post hook, one resource at a time, appended to
\* that collection's members; a resource is removed only by a DELETE answered
\* 204 of a resource that has a delete hook. So the service
\* root, the session service, the account service, the account and the three
\* roles exist in every reachable state.
C19_LifecycleFrame ==
    /\ DOMAIN tree.collections = Installed
    /\ {u \in DOMAIN tree.resources : IsNone(tree.resources[u].delete)} = Permanent
    /\ ~Responded => tree = PreTree
    /\ (Responded /\ Added # {}) =>
          /\ req.method = "POST"
          /\ resp.status = 201
          /\ strip_members(Target) \in DOMAIN PreTree.collections
          /\ IsSome(PreTree.collections[strip_members(Target)].post)
          /\ \E uri \in Added :
                /\ Added = {uri}
                /\ tree.collections[strip_members(Target)].members =
                       Append(PreTree.collections[strip_members(Target)].members, uri)
          /\ Removed = {}
    /\ (Responded /\ Removed # {}) =>
          /\ req.method = "DELETE"
          /\ resp.status = 204
          /\ Removed = {Target}
          /\ IsSome(PreTree.resources[Target].delete)
          /\ Added = {}

\* C19: the second of two sessions has been deleted with a 204; the seven
\* installed resources and the first session are still there
C19_OnlySessionRemoved ==
    /\ Responded
    /\ req.method = "DELETE"
    /\ resp.status = 204
    /\ Removed = {SessionUri(2)}
    /\ DOMAIN tree.resources = Permanent \cup {SessionUri(1)}

\* The entries of a session store
Entries(store) == {store[i] : i \in 1..Len(store)}

\* C20: the session lifecycle has no timeout. A session enters the store only
\* with the 201 of a POST to the session collection, one at a time, and leaves
\* it only with the 204 of a DELETE of its session resource; every other
\* session's token keeps resolving to its username across every request,
\* PATCHes that change SessionTimeout and DELETEs of other sessions included.
C20_SessionLifecycle ==
    /\ ~Responded => sessions = pre.state.sessions
    /\ Responded =>
          /\ Entries(sessions) \ Entries(pre.state.sessions) # {} =>
                /\ SessionCreated
                /\ Cardinality(Entries(sessions) \ Entries(pre.state.sessions)) = 1
                /\ Entries(pre.state.sessions) \subseteq Entries(sessions)
          /\ Entries(pre.state.sessions) \ Entries(sessions) # {} =>
                /\ req.method = "DELETE"
                /\ resp.status = 204
                /\ \A e \in Entries(pre.state.sessions) \ Entries(sessions) :
                      e.uri = Target
          /\ \A e \in Entries(pre.state.sessions) :
                (req.method = "DELETE" /\ resp.status = 204 /\ e.uri = Target)
                \/ get_token_user(e.token, sessions) = Some(e.username)

\* C20: after a PATCH has set SessionTimeout to 300, the first of three
\* sessions is deleted; the tokens of the other two still resolve
C20_OthersSurviveDelete ==
    /\ Responded
    /\ req.method = "DELETE"
    /\ resp.status = 204
    /\ pre.hist.timeout = JNum(300)
    /\ Len(pre.state.sessions) = 3
    /\ Target = pre.state.sessions[1].uri
    /\ Len(sessions) = 2
    /\ \A i \in 2..3 :
          get_token_user(pre.state.sessions[i].token, sessions)
              = Some(pre.state.sessions[i].username)

---------------------------------------------------------------------------
(* C21 .. C24: failures, body validation, identity order, unique URIs       *)

\* The request is a POST, PATCH or DELETE handled by the tree's handlers
Mutation ==
    /\ Responded
    /\ route(Target) = "/redfish/*path"
    /\ req.method \in {"POST", "PATCH", "DELETE"}

\* The request did not succeed: it was answered with an error status, or a
\* panic (in a hook or in the handler) left it without a response
EndedInError == resp.status \notin {200, 201, 204}

\* C21: state unchanged on failure. Whenever a create, delete or patch
\* request ends in an error (Unauthorized, NotFound, MethodNotAllowed, a
\* failure inside a hook or in the handler around it), the resource map, the
\* collection map with every member sequence, every resource body and the
\* session store are the same as before the request.
C21_UnchangedOnFailure ==
    (Mutation /\ EndedInError) => StateUnchanged

\* C21: a PATCH whose hook fails on the payload has left the tree and the
\* session store as they were
C21_HookFailureLeftState ==
    /\ Mutation
    /\ req.method = "PATCH"
    /\ Target = SessionServiceUri
    /\ req.payload.json = P_timeout_string
    /\ resp.status = 0
    /\ Len(sessions) = 1
    /\ StateUnchanged

\* The request is a POST or PATCH on the wildcard route with an acceptable
\* OData-Version and credentials, whose body is sent as application/json and
\* is valid JSON but not a JSON object
NonObjectBody ==
    /\ Mutation
    /\ req.method \in WithBody
    /\ ODataAcceptable(req)
    /\ Authenticated(pre.hist, req)
    /\ req.headers.content_type_json
    /\ req.payload.valid
    /\ req.payload.json.t # "obj"

\* C22: body validation. A POST or PATCH whose payload is valid JSON but not
\* a JSON object is answered 400 with an empty body and changes no state, for
\* every target URI, the session collection and /redfish/v1/SessionService
\* included.
C22_NonObject400 ==
    NonObjectBody =>
        /\ resp.status = 400
        /\ resp.body = EmptyBody
        /\ StateUnchanged

\* C22: a POST of a JSON array to /redfish/v1/SessionService has been handed
\* to the tree, which answers 405
C22_ArrayReachedTree ==
    /\ NonObjectBody
    /\ req.method = "POST"
    /\ Target = SessionServiceUri
    /\ req.payload.json = P_array
    /\ resp.status = 405

\* The outcome of the same request with its Authorization header replaced,
\* from the state the request was served from
WithAuthorization(a) == serve(pre.state, [req EXCEPT !.headers.authorization = a])

\* The identity get_request_username resolves for the request
Resolved == get_request_username(req.headers, pre.state.sessions)

\* C23: identity resolution order. When a request carries X-Auth-Token only
\* the session store decides: a token that is not in the store is answered
\* 401 and changes nothing, also with a well-formed Authorization: Basic
\* header beside it and also on targets that permit anonymous access (GET
\* /redfish/v1, POST to the session collection), and the outcome does not
\* depend on the Authorization header at all. The Authorization header is
\* consulted only when X-Auth-Token is absent, and with neither header the
\* identity is none.
C23_IdentityOrder ==
    ReachesIdentity =>
        /\ IsSome(req.headers.x_auth_token) =>
              /\ get_token_user(Unwrap(req.headers.x_auth_token), pre.state.sessions) = None
                    => resp.status = 401 /\ StateUnchanged
              /\ \A a \in {None, Some(BasicAdmin), Some(MalformedBasic), Some(NotAsciiBasic)} :
                    /\ WithAuthorization(a).resp.status = resp.status
                    /\ WithAuthorization(a).tree = tree
                    /\ WithAuthorization(a).sessions = sessions
        /\ (IsNone(req.headers.x_auth_token) /\ IsSome(req.headers.authorization)) =>
              Resolved = IF Unwrap(req.headers.authorization).basic
                         THEN [panic |-> FALSE, ok |-> TRUE,
                               user |-> Some(Unwrap(req.headers.authorization).user_id)]
                         ELSE [panic |-> FALSE, ok |-> FALSE, user |-> None]
        /\ (IsNone(req.headers.x_auth_token) /\ IsNone(req.headers.authorization)) =>
              Resolved = [panic |-> FALSE, ok |-> TRUE, user |-> None]

\* C23: a GET of /redfish/v1 with a token that is not in the store and with
\* well-formed Basic credentials is answered 401 while a session exists
C23_UnknownTokenBesideBasic ==
    /\ ReachesIdentity
    /\ req.method = "GET"
    /\ Target = RootUri
    /\ IsSome(req.headers.x_auth_token)
    /\ req.headers.authorization = Some(BasicAdmin)
    /\ get_token_user(Unwrap(req.headers.x_auth_token), pre.state.sessions) = None
    /\ Len(pre.state.sessions) = 1
    /\ resp.status = 401

\* C24: no two entities share a URI (I3). In every reachable state no URI is
\* a key of both the resource map and the collection map, and no member
\* sequence contains the same URI twice.
C24_UniqueUris ==
    /\ DOMAIN tree.resources \cap DOMAIN tree.collections = {}
    /\ \A c \in DOMAIN tree.collections :
          \A i, j \in 1..Len(tree.collections[c].members) :
              tree.collections[c].members[i] = tree.collections[c].members[j] => i = j
    /\ \A u \in DOMAIN tree.resources : tree.resources[u].uri = u
    /\ \A c \in DOMAIN tree.collections : tree.collections[c].uri = c

\* C24: the Id of a deleted session has been given out again; the session
\* collection lists sessions 1 and 2 once each
C24_IdReused ==
    /\ SessionCreated
    /\ resp.location = Some("/redfish/v1/SessionService/Sessions/2")
    /\ "/redfish/v1/SessionService/Sessions/2" \in pre.hist.gone
    /\ tree.collections[SessionsUri].members = <<SessionUri(1), SessionUri(2)>>

---------------------------------------------------------------------------
(* C25, C26: the Link header, HEAD                                          *)

\* The schema names and the resource schema versions in use
SchemaNames ==
    { "ServiceRoot", "SessionService", "AccountService", "ManagerAccount", "Role",
      "Session", "SessionCollection", "ManagerAccountCollection", "RoleCollection" }

SchemaVersions == {"v1_15_0", "v1_1_8", "v1_12_0", "v1_10_0", "v1_3_1", "v1_6_0"}

\* The Link value of a describedBy URL
DescribedByLink(url) == Some("<" \o url \o ">; rel=describedby")

\* The law: an @odata.type #<Name>.<version>.<Name> of a resource type goes
\* with <Name>.<version>.json, an @odata.type #<Name>.<Name> of a collection
\* type with <Name>.json
LinkLaw(type, link) ==
    \E n \in SchemaNames :
        \/ \E v \in SchemaVersions :
              /\ type = JStr("#" \o n \o "." \o v \o "." \o n)
              /\ link = DescribedByLink("https://redfish.dmtf.org/schemas/v1/"
                                          \o n \o "." \o v \o ".json")
        \/ /\ type = JStr("#" \o n \o "." \o n)
           /\ link = DescribedByLink("https://redfish.dmtf.org/schemas/v1/"
                                       \o n \o ".json")

\* The @odata.type of the body of the node at uri
TypeOf(uri) ==
    IF uri \in DOMAIN tree.resources THEN tree.resources[uri].body["@odata.type"]
    ELSE Collection_get_body(tree.collections[uri]).o["@odata.type"]

\* The node a 200 or 201 of the tree's handlers is about: the one created, or
\* the target
AnsweredNode == IF resp.status = 201 THEN CHOOSE uri \in Added : TRUE ELSE Target

\* C25: describedBy link law. Every 200 or 201 response for a node carries
\* Link: <describedBy(t)>; rel=describedby for the schema type t its
\* @odata.type names, with <Name>.<version>.json for a resource type and
\* <Name>.json for a collection type, also for resources created at runtime.
C25_DescribedByLaw ==
    (Responded /\ route(Target) = "/redfish/*path" /\ resp.status \in {200, 201})
    => /\ LinkLaw(TypeOf(AnsweredNode), resp.link)
       /\ req.method \in {"GET", "POST", "PATCH"} =>
             resp.body.o["@odata.type"] = TypeOf(AnsweredNode)

\* C25: the 201 of a session created at runtime carries the Link of
\* Session.v1_6_0
C25_CreatedSessionLinked ==
    /\ SessionCreated
    /\ resp.body.o["@odata.type"] = JStr("#Session.v1_6_0.Session")
    /\ resp.link = Some("<https://redfish.dmtf.org/schemas/v1/Session.v1_6_0.json>; rel=describedby")

\* The outcome of the same request sent as a GET, from the state the request
\* was served from
AsGet == serve(pre.state, [req EXCEPT !.method = "GET"])

\* C26: HEAD mirrors GET. For every URI and every identity a HEAD request
\* gets the status and the headers the GET request would get in the same
\* state, with an empty body, and changes no state.
C26_HeadMirrorsGet ==
    (Responded /\ req.method = "HEAD") =>
        /\ resp.status = AsGet.resp.status
        /\ resp = [AsGet.resp EXCEPT !.body = EmptyBody]
        /\ resp.body = EmptyBody
        /\ StateUnchanged

\* C26: a HEAD of the session collection with a session's token is answered
\* 200 with the headers of the GET and no body
C26_HeadOfCollection ==
    /\ Responded
    /\ req.method = "HEAD"
    /\ Target = SessionsUri
    /\ IsSome(req.headers.x_auth_token)
    /\ resp.status = 200
    /\ resp.allow = Some("GET,HEAD,POST")
    /\ resp.content_type = Some("application/json")
    /\ AsGet.resp.body.t = "obj"
    /\ resp.body = EmptyBody

---------------------------------------------------------------------------
(* The OData documents as functions of their inputs.  node holds the input  *)
(* (a service-root body, or the two type registries of a tree), resp the     *)
(* document computed from it.                                               *)

MaxTypes == 2

\* Sequences of at most n elements of S
SeqsUpTo(S, n) == UNION { [1..k -> S] : k \in 0..n }

\* What a service-root property may hold: links, a link beside other
\* properties, an object whose links are nested (Links), an empty object
\* (ProtocolFeaturesSupported), a string (RedfishVersion)
RootPropertyValues ==
    { Link("/redfish/v1/AccountService"),
      Link("/redfish/v1/SessionService"),
      Link("/redfish/v1/SessionService/Sessions"),
      Object(<< <<"@odata.id", JStr("/redfish/v1/SessionService")>>,
                <<"Name", JStr("Session Service")>> >>),
      Object(<< <<"Sessions", Link("/redfish/v1/SessionService/Sessions")>> >>),
      Object(<< >>),
      JStr("1.16.1") }

RootPropertyNames == {"AccountService", "Links", "SessionService"}

\* Service-root bodies: any subset of the names, any value under each
ServiceRootBodies ==
    UNION { [names -> RootPropertyValues] : names \in SUBSET RootPropertyNames }

RegisteredCollectionTypes ==
    { CollectionType_new_dmtf_v1("SessionCollection"),
      CollectionType_new_dmtf_v1("RoleCollection") }

RegisteredResourceTypes ==
    { ResourceType_new_dmtf("ServiceRoot", ResourceSchemaVersion_new(1, 16, 1)),
      ResourceType_new_dmtf("ServiceRoot", ResourceSchemaVersion_new(1, 15, 0)),
      ResourceType_new_dmtf("Session", ResourceSchemaVersion_new(1, 6, 0)) }

DocumentInputs ==
    { [service_root |-> b] : b \in ServiceRootBodies }
    \cup { [collection_types |-> c, resource_types |-> r] :
             c \in SeqsUpTo(RegisteredCollectionTypes, MaxTypes),
             r \in SeqsUpTo(RegisteredResourceTypes, MaxTypes) }

InitDocs ==
    /\ tree = get_mock_tree
    /\ sessions = <<>>
    /\ poisoned = FALSE
    /\ drawn = 0
    /\ req = NoRequest
    /\ resp = NoResponse
    /\ pre = [ state |-> State, hist |-> InitialHist ]
    /\ hist = InitialHist
    /\ node \in {Some(i) : i \in DocumentInputs}
    /\ flight = IdleFlight

\* get_odata_service_document(service_root)
ServiceDocument ==
    /\ resp = NoResponse
    /\ "service_root" \in DOMAIN Unwrap(node)
    /\ resp' = [ doc |-> "service",
                 value |-> get_odata_service_document(Unwrap(node).service_root) ]
    /\ UNCHANGED <<tree, sessions, poisoned, drawn, req, pre, hist, node, flight>>

\* get_odata_metadata_document(collection_types, resource_types)
MetadataDocument ==
    /\ resp = NoResponse
    /\ "resource_types" \in DOMAIN Unwrap(node)
    /\ resp' = [ doc |-> "metadata",
                 value |-> get_odata_metadata_document(Unwrap(node).collection_types,
                                                       Unwrap(node).resource_types) ]
    /\ UNCHANGED <<tree, sessions, poisoned, drawn, req, pre, hist, node, flight>>

NextDocs ==
    \/ ServiceDocument
    \/ MetadataDocument

SpecDocs == InitDocs /\ [][NextDocs]_vars

ServiceDocumentComputed == resp # NoResponse /\ resp.doc = "service"
MetadataDocumentComputed == resp # NoResponse /\ resp.doc = "metadata"

\* A Singleton entry of the service document
Singleton(name, url) ==
    Object(<< <<"kind", JStr("Singleton")>>, <<"name", JStr(name)>>,
              <<"url", JStr(url)>> >>)

\* The last path segment of the urls the bodies link to
LastSegment(url) ==
    CASE url = "/redfish/v1/AccountService" -> "AccountService"
      [] url = "/redfish/v1/SessionService" -> "SessionService"
      [] url = "/redfish/v1/SessionService/Sessions" -> "Sessions"

\* The properties that contribute an entry, in the body's iteration order
Contributing(body) ==
    SelectSeq(KeyOrder,
              LAMBDA k : /\ k \in DOMAIN body
                         /\ body[k].t = "obj"
                         /\ "@odata.id" \in DOMAIN body[k].o)

\* C27: the value list of the service document is the entry {Singleton, v1,
\* /redfish/v1} followed by one Singleton entry per top-level property of the
\* service-root body whose value is an object directly containing @odata.id,
\* in the body's iteration order, each named after the last segment of its
\* url; every other property (a non-object, an object without a direct
\* @odata.id such as Links) contributes nothing.
C27_ServiceDocument ==
    ServiceDocumentComputed =>
        LET body == Unwrap(node).service_root
            value == resp.value["value"].a
            keys == Contributing(body)
        IN  /\ resp.value["value"].t = "arr"
            /\ Len(value) = 1 + Len(keys)
            /\ value[1] = Singleton("v1", "/redfish/v1")
            /\ \A i \in 1..Len(keys) :
                   LET url == body[keys[i]].o["@odata.id"].s
                   IN  value[i + 1] = Singleton(LastSegment(url), url)

\* A body with a link named differently from its property, a Links object
\* and a second link: two entries follow v1
C27_LinksSkipped ==
    /\ ServiceDocumentComputed
    /\ DOMAIN Unwrap(node).service_root = RootPropertyNames
    /\ Unwrap(node).service_root["AccountService"]
           = Link("/redfish/v1/SessionService/Sessions")
    /\ Unwrap(node).service_root["Links"]
           = Object(<< <<"Sessions", Link("/redfish/v1/SessionService/Sessions")>> >>)
    /\ Unwrap(node).service_root["SessionService"] = Link("/redfish/v1/SessionService")
    /\ Len(resp.value["value"].a) = 3

\* The references of a registry, in registration order
RECURSIVE InOrder(_, _)
InOrder(refs, i) == IF i > Len(refs) THEN "" ELSE refs[i] \o InOrder(refs, i + 1)

Preamble ==
    "<?xml version=\"1.0\" encoding=\"UTF-8\"?>\n<edmx:Edmx xmlns:edmx=\"http://docs.oasis-open.org/odata/ns/edmx\" Version=\"4.0\">\n"

RedfishExtensionsReference ==
    "  <edmx:Reference Uri=\"http://redfish.dmtf.org/schemas/v1/RedfishExtensions_v1.xml\">\n    <edmx:Include Namespace=\"RedfishExtensions.v1_0_0\" Alias=\"Redfish\"/>\n  </edmx:Reference>\n"

DataServices(versioned_name) ==
    "  <edmx:DataServices>\n    <Schema xmlns=\"http://docs.oasis-open.org/odata/ns/edm\" Namespace=\"Service\">\n      <EntityContainer Name=\"Service\" Extends=\""
    \o versioned_name
    \o ".ServiceContainer\" />\n    </Schema>\n  </edmx:DataServices>\n"

\* C28: the $metadata document is the preamble, one reference per registered
\* collection type in registration order, one per registered resource type in
\* registration order, the RedfishExtensions reference, the DataServices
\* block exactly when a resource type named ServiceRoot is registered
\* (extending the versioned name of that type, the last one registered), and
\* the closing tag; there are as many type references as registry entries.
C28_MetadataDocument ==
    MetadataDocumentComputed =>
        LET cts == Unwrap(node).collection_types
            rts == Unwrap(node).resource_types
            refs == [i \in 1..Len(cts) |-> CollectionType_to_xml(cts[i])]
                    \o [i \in 1..Len(rts) |-> ResourceType_to_xml(rts[i])]
            roots == {i \in 1..Len(rts) : rts[i].name = "ServiceRoot"}
            last == rts[CHOOSE i \in roots : \A j \in roots : j <= i]
        IN  /\ Len(refs) = Len(cts) + Len(rts)
            /\ resp.value
                 = Preamble
                   \o InOrder(refs, 1)
                   \o RedfishExtensionsReference
                   \o (IF roots = {} THEN ""
                       ELSE DataServices(last.name \o "."
                                \o ResourceSchemaVersion_to_string(last.version)))
                   \o "</edmx:Edmx>\n"

\* Two collection types and two ServiceRoot versions registered
C28_TwoRegistries ==
    /\ MetadataDocumentComputed
    /\ Len(Unwrap(node).collection_types) = 2
    /\ Unwrap(node).collection_types[1] # Unwrap(node).collection_types[2]
    /\ Len(Unwrap(node).resource_types) = 2
    /\ Unwrap(node).resource_types[1].name = "ServiceRoot"
    /\ Unwrap(node).resource_types[2].name = "ServiceRoot"
    /\ Unwrap(node).resource_types[1] # Unwrap(node).resource_types[2]

---------------------------------------------------------------------------
(* The handlers step by step, several at once.  Each task is one invocation *)
(* of getter, deleter, poster or patcher; tokio runs them on different       *)
(* threads, and a handler body has no await point, so a task moves from one  *)
(* statement to the next on its own and waits only in Mutex::lock.           *)

\* The requests handled at once: requests of the wildcard route that pass the
\* OData-Version check and, for POST and PATCH, the Json extractor; the last
\* one carries an X-Auth-Token that is not visible ASCII
ConcRequests ==
    { Request("POST", SessionsUri, Headers(None, None, None, TRUE), JsonPayload(P_admin)),
      Request("POST", SessionsUri, Headers(None, None, None, TRUE),
              JsonPayload(P_username_number)),
      Request("DELETE", SessionUri(1), Headers(None, None, Some(BasicAdmin), FALSE),
              NoPayload),
      Request("DELETE", SessionUri(1), Headers(None, Some(Uuid_new_v4(1)), None, FALSE),
              NoPayload),
      Request("GET", SessionsUri, Headers(None, None, Some(BasicAdmin), FALSE), NoPayload),
      Request("GET", SessionUri(1), Headers(None, Some(Uuid_new_v4(1)), None, FALSE),
              NoPayload),
      Request("PATCH", SessionServiceUri, Headers(None, None, Some(BasicAdmin), TRUE),
              JsonPayload(P_timeout)),
      Request("GET", RootUri, Headers(None, Some(NotAsciiToken), None, FALSE), NoPayload) }

Task(t) == flight.tasks[t]

\* let uri = "/redfish/".to_owned() + &path, less poster's "/Members"
TaskUri(t) ==
    LET uri == <<"redfish">> \o wildcard_path(trim_trailing_slash(Task(t).req.path))
    IN  IF Task(t).req.method = "POST" THEN strip_members(uri) ELSE uri

\* A lock that is handed out whoever holds it
Mutex_lock_unchecked(holder) == TRUE

\* std::sync::Mutex::lock returns once no other guard of the mutex is alive
Mutex_lock(holder) == holder = 0

\* A deleter whose tree guard lives only as long as the call of tree.delete
guard_dropped_after_delete(t) == 0

\* deleter: `tree` is a local of the handler, so when tree.delete has returned
\* the tree guard is still held by the task
guard_after_delete(t) == t

\* The handler returns: its response is sent and its guards are dropped
Return(fl, t, response) ==
    [ fl EXCEPT !.tasks[t].pc = "done",
                !.tasks[t].resp = response,
                !.tree_guard = IF @ = t THEN 0 ELSE @,
                !.sessions_guard = IF @ = t THEN 0 ELSE @ ]

\* A request reaches its handler; the tasks are taken in the order of arrival
Arrive ==
    \E t \in Tasks, r \in ConcRequests :
        /\ Task(t).pc = "idle"
        /\ t > 1 => Task(t - 1).pc # "idle"
        /\ r.method = "POST" =>
               Cardinality({u \in Tasks : Task(u).req.method = "POST"}) < MaxTokens
        /\ flight' = [flight EXCEPT !.tasks[t].pc = "lock", !.tasks[t].req = r]
        /\ UNCHANGED <<tree, sessions, poisoned, drawn, req, resp, pre, hist, node>>

\* state.tree.lock().unwrap()
LockTree ==
    \E t \in Tasks :
        /\ Task(t).pc = "lock"
        /\ Mutex_lock(flight.tree_guard)
        /\ flight' = IF poisoned
                     THEN Return([flight EXCEPT !.order = Append(@, t)], t, NoResponse)
                     ELSE [flight EXCEPT !.tasks[t].pc = "locked",
                                         !.tree_guard = t,
                                         !.order = Append(@, t)]
        /\ UNCHANGED <<tree, sessions, poisoned, drawn, req, resp, pre, hist, node>>

\* get_request_username(&headers, &state); get_token_user locks the sessions
\* for its loop
Identity ==
    \E t \in Tasks :
        /\ Task(t).pc = "locked"
        /\ ( /\ IsSome(Task(t).req.headers.x_auth_token)
              /\ IsSome(Token_to_str(Unwrap(Task(t).req.headers.x_auth_token))) )
               => Mutex_lock(flight.sessions_guard)
        /\ LET user == get_request_username(Task(t).req.headers, sessions)
           IN  /\ poisoned' = user.panic
               /\ flight' = IF user.panic
                             THEN Return(flight, t, NoResponse)
                             ELSE IF ~user.ok
                             THEN Return(flight, t, get_error_response(ErrUnauthorized))
                             ELSE [flight EXCEPT !.tasks[t].pc = "tree",
                                                 !.tasks[t].user = user.user]
        /\ UNCHANGED <<tree, sessions, drawn, req, resp, pre, hist, node>>

\* getter: tree.get and the response
TreeGet ==
    \E t \in Tasks :
        /\ Task(t).pc = "tree"
        /\ Task(t).req.method = "GET"
        /\ LET got == MockTree_get(tree, TaskUri(t), Task(t).user)
           IN  flight' = IF got.kind = "Ok"
                         THEN Return(flight, t, get_node_get_response(Unwrap(got.node)))
                         ELSE Return(flight, t, get_error_response(got))
        /\ UNCHANGED <<tree, sessions, poisoned, drawn, req, resp, pre, hist, node>>

\* patcher: tree.patch and the response
TreePatch ==
    \E t \in Tasks :
        /\ Task(t).pc = "tree"
        /\ Task(t).req.method = "PATCH"
        /\ LET pat == MockTree_patch(tree, TaskUri(t), Task(t).req.payload.json,
                                     Task(t).user)
           IN  /\ tree' = pat.tree
               /\ poisoned' = (pat.result.kind = "Panic")
               /\ flight' =
                    CASE pat.result.kind = "Ok" ->
                           Return(flight, t, get_node_get_response(Unwrap(pat.result.node)))
                      [] pat.result.kind = "Panic" -> Return(flight, t, NoResponse)
                      [] OTHER -> Return(flight, t, get_error_response(pat.result))
        /\ UNCHANGED <<sessions, drawn, req, resp, pre, hist, node>>

\* MockTree::delete up to the return of the delete hook
DeleteCheck ==
    \E t \in Tasks :
        /\ Task(t).pc = "tree"
        /\ Task(t).req.method = "DELETE"
        /\ LET del == MockTree_delete(tree, TaskUri(t), Task(t).user)
           IN  /\ poisoned' = (del.result.kind = "Panic")
               /\ flight' =
                    CASE del.result.kind = "Ok" ->
                           [flight EXCEPT !.tasks[t].pc = "members",
                                          !.tasks[t].resource =
                                              Some(tree.resources[TaskUri(t)])]
                      [] del.result.kind = "Panic" -> Return(flight, t, NoResponse)
                      [] OTHER -> Return(flight, t, get_error_response(del.result))
        /\ UNCHANGED <<tree, sessions, drawn, req, resp, pre, hist, node>>

\* MockTree::delete: collection.members.remove(member_index)
DeleteMembers ==
    \E t \in Tasks :
        /\ Task(t).pc = "members"
        /\ tree' = [tree EXCEPT !.collections =
                        RemoveMember(@, Unwrap(Task(t).resource), TaskUri(t))]
        /\ flight' = [flight EXCEPT !.tasks[t].pc = "map"]
        /\ UNCHANGED <<sessions, poisoned, drawn, req, resp, pre, hist, node>>

\* MockTree::delete: self.resources.remove(uri), and the return to deleter
DeleteMap ==
    \E t \in Tasks :
        /\ Task(t).pc = "map"
        /\ tree' = [tree EXCEPT !.resources = MapRemove(@, TaskUri(t))]
        /\ flight' = [flight EXCEPT !.tasks[t].pc = "store",
                                    !.tree_guard = guard_after_delete(t)]
        /\ UNCHANGED <<sessions, poisoned, drawn, req, resp, pre, hist, node>>

\* state.sessions.lock().unwrap(), of deleter and of poster
LockSessions ==
    \E t \in Tasks :
        /\ Task(t).pc \in {"store", "record"}
        /\ Mutex_lock(flight.sessions_guard)
        /\ flight' = [flight EXCEPT
                        !.tasks[t].pc = IF @ = "store" THEN "unstore" ELSE "recording",
                        !.sessions_guard = t]
        /\ UNCHANGED <<tree, sessions, poisoned, drawn, req, resp, pre, hist, node>>

\* deleter: the loop over the sessions and the 204
DeleteStore ==
    \E t \in Tasks :
        /\ Task(t).pc = "unstore"
        /\ sessions' = remove_session(sessions, TaskUri(t))
        /\ flight' = Return(flight, t, no_content_response)
        /\ UNCHANGED <<tree, poisoned, drawn, req, resp, pre, hist, node>>

\* MockTree::create up to the return of the post hook
CreateCheck ==
    \E t \in Tasks :
        /\ Task(t).pc = "tree"
        /\ Task(t).req.method = "POST"
        /\ LET cre == MockTree_create(tree, TaskUri(t), Task(t).req.payload.json,
                                      Task(t).user)
           IN  /\ poisoned' = (cre.result.kind = "Panic")
               /\ flight' =
                    CASE cre.result.kind = "Ok" ->
                           [flight EXCEPT
                              !.tasks[t].pc = "insert",
                              !.tasks[t].resource =
                                  CallPost(Unwrap(tree.collections[TaskUri(t)].post),
                                           tree.collections[TaskUri(t)],
                                           Task(t).req.payload.json).v]
                      [] cre.result.kind = "Panic" -> Return(flight, t, NoResponse)
                      [] OTHER -> Return(flight, t, get_error_response(cre.result))
        /\ UNCHANGED <<tree, sessions, drawn, req, resp, pre, hist, node>>

\* MockTree::create: self.resources.insert(member.uri.clone(), member)
CreateInsert ==
    \E t \in Tasks :
        /\ Task(t).pc = "insert"
        /\ tree' = [tree EXCEPT !.resources =
                        MapInsert(@, Unwrap(Task(t).resource).uri, Unwrap(Task(t).resource))]
        /\ flight' = [flight EXCEPT !.tasks[t].pc = "push"]
        /\ UNCHANGED <<sessions, poisoned, drawn, req, resp, pre, hist, node>>

\* MockTree::create: collection.members.push(member_uri), and the return to
\* poster
CreatePush ==
    \E t \in Tasks :
        /\ Task(t).pc = "push"
        /\ tree' = [tree EXCEPT !.collections[TaskUri(t)].members =
                        Append(@, Unwrap(Task(t).resource).uri)]
        /\ flight' = [flight EXCEPT !.tasks[t].pc = "made"]
        /\ UNCHANGED <<sessions, poisoned, drawn, req, resp, pre, hist, node>>

\* poster's Ok arm: for the session collection the token is drawn and the
\* node's UserName unwrapped as a string; any other collection answers 201
CreateToken ==
    \E t \in Tasks :
        /\ Task(t).pc = "made"
        /\ LET node_ == ResourceNode(Unwrap(Task(t).resource))
               sessions_uri == TaskUri(t) = SessionsUri
           IN  /\ drawn' = IF sessions_uri THEN drawn + 1 ELSE drawn
               /\ poisoned' = (sessions_uri /\ node_.body.o["UserName"].t # "str")
               /\ flight' =
                    IF ~sessions_uri
                    THEN Return(flight, t, get_node_created_response(node_, None))
                    ELSE IF node_.body.o["UserName"].t # "str"
                    THEN Return(flight, t, NoResponse)
                    ELSE [flight EXCEPT !.tasks[t].pc = "record",
                                        !.tasks[t].token = Some(Uuid_new_v4(drawn + 1))]
        /\ UNCHANGED <<tree, sessions, req, resp, pre, hist, node>>

\* poster: sessions.push(session) and the 201 with its X-Auth-Token
CreateRecord ==
    \E t \in Tasks :
        /\ Task(t).pc = "recording"
        /\ LET node_ == ResourceNode(Unwrap(Task(t).resource))
           IN  /\ sessions' = Append(sessions,
                                  [ token |-> Unwrap(Task(t).token),
                                    username |-> node_.body.o["UserName"].s,
                                    uri |-> node_.uri ])
               /\ flight' = Return(flight, t,
                                get_node_created_response(node_, Task(t).token))
        /\ UNCHANGED <<tree, poisoned, drawn, req, resp, pre, hist, node>>

NextConc ==
    \/ Arrive
    \/ LockTree
    \/ Identity
    \/ TreeGet
    \/ TreePatch
    \/ DeleteCheck
    \/ DeleteMembers
    \/ DeleteMap
    \/ LockSessions
    \/ DeleteStore
    \/ CreateCheck
    \/ CreateInsert
    \/ CreatePush
    \/ CreateToken
    \/ CreateRecord

SpecConc == Init /\ [][NextConc]_vars

\* The handlers taken one at a time, each as one step, in the given order of
\* the tasks: the state after the last and the response of each
RECURSIVE Sequential(_, _)
Sequential(st, order) ==
    IF order = <<>> THEN [state |-> st, resps |-> <<>>]
    ELSE LET before == Sequential(st, Front(order))
             out == serve(before.state, Task(Last(order)).req)
         IN  [ state |-> [ tree |-> out.tree, sessions |-> out.sessions,
                           poisoned |-> out.poisoned, drawn |-> out.drawn ],
               resps |-> Append(before.resps, out.resp) ]

SessionUris == {SessionUri(k) : k \in 1..(MaxTokens + 1)}
SessionMembers == tree.collections[SessionsUri].members
Stored(uri) == \E i \in 1..Len(sessions) : sessions[i].uri = uri

\* A task that has the tree guard and has yet to read: what it reads, of the
\* session store and then of the tree, is the state as it is now
Observing(t) == Task(t).pc \in {"locked", "tree"}

\* C29: whatever is in flight, a request never reads a state in which a
\* session is in the resource map but not among the members of its collection,
\* or among the members but not in the map, or in one of the two but not in
\* the session store: the three removals of a DELETE are seen together or not
\* at all.
C29_AtomicDelete ==
    \A t \in Tasks :
        Observing(t) =>
            \A u \in SessionUris :
                /\ (u \in DOMAIN tree.resources) <=> Contains(SessionMembers, u)
                /\ (u \in DOMAIN tree.resources) <=> Stored(u)

\* A DELETE has taken the session out of the members and not yet out of the
\* map, while a GET of the collection is in flight, waiting for the tree guard
C29_ReaderWaitsMidDelete ==
    \E t, u \in Tasks :
        /\ Task(t).req.method = "DELETE"
        /\ Task(t).pc = "map"
        /\ TaskUri(t) \in DOMAIN tree.resources
        /\ ~Contains(SessionMembers, TaskUri(t))
        /\ Stored(TaskUri(t))
        /\ Task(u).req.method = "GET"
        /\ Task(u).pc = "lock"

SessionPost(t) == Task(t).req.method = "POST" /\ TaskUri(t) = SessionsUri
Created(t) == SessionPost(t) /\ Task(t).pc = "done" /\ Task(t).resp.status = 201
NoDelete == \A t \in Tasks : Task(t).req.method # "DELETE"
Quiet == \A t \in Tasks : Task(t).pc \in {"idle", "done"}
Occurrences(v, x) == Cardinality({i \in 1..Len(v) : v[i] = x})

\* C30: the POSTs to the session collection that are in flight together are
\* served as if one at a time in the order they took the tree guard: each
\* response is the one that order gives, and once no task is inside the state
\* is the one it leaves; as long as nothing is deleted between them, the
\* successful ones have pairwise different Ids, URIs and tokens, and when all
\* have returned each new URI is among the members exactly once.
C30_CreationLinearizable ==
    LET seq == Sequential(pre.state, flight.order)
    IN  /\ \A i \in 1..Len(flight.order) :
               Task(flight.order[i]).pc = "done" =>
                   Task(flight.order[i]).resp = seq.resps[i]
        /\ flight.tree_guard = 0 => State = seq.state
        /\ \A t, u \in Tasks :
               (Created(t) /\ Created(u) /\ t # u) =>
                   /\ Task(t).resp.x_auth_token # Task(u).resp.x_auth_token
                   /\ NoDelete =>
                          /\ Task(t).resp.location # Task(u).resp.location
                          /\ Task(t).resp.body.o["Id"] # Task(u).resp.body.o["Id"]
        /\ \A t \in Tasks :
               (Created(t) /\ NoDelete /\ Quiet) =>
                   \E k \in 1..MaxInFlight :
                       /\ Task(t).resp.location = Some(UriStr(SessionUri(k)))
                       /\ Occurrences(SessionMembers, SessionUri(k)) = 1

\* Two POSTs in flight together, the one that arrived second served first:
\* it is session 1, the other session 2
C30_SecondArrivalFirst ==
    /\ Len(flight.order) >= 2
    /\ flight.order[1] = 2
    /\ flight.order[2] = 1
    /\ Created(1)
    /\ Created(2)
    /\ Task(2).resp.location = Some(UriStr(SessionUri(1)))
    /\ Task(1).resp.location = Some(UriStr(SessionUri(2)))
    /\ SessionMembers = <<SessionUri(1), SessionUri(2)>>

---------------------------------------------------------------------------
(* C31 .. C34: the guards under concurrent requests.  SpecConcWarm starts    *)
(* the tasks from the service with one session: the state the service is in *)
(* after it has served one POST to the session collection on its own.        *)

InitWarm ==
    LET created == serve([ tree |-> get_mock_tree, sessions |-> <<>>,
                           poisoned |-> FALSE, drawn |-> 0 ],
                         Request("POST", SessionsUri, Headers(None, None, None, TRUE),
                                 JsonPayload(P_admin)))
    IN  /\ tree = created.tree
        /\ sessions = created.sessions
        /\ poisoned = created.poisoned
        /\ drawn = created.drawn
        /\ req = NoRequest
        /\ resp = NoResponse
        /\ pre = [ state |-> State, hist |-> InitialHist ]
        /\ hist = InitialHist
        /\ node = None
        /\ flight = IdleFlight

SpecConcWarm == InitWarm /\ [][NextConc]_vars

\* The token of the session the service starts with, and that session
TokenT == Uuid_new_v4(1)
SessionOfT ==
    pre.state.sessions[CHOOSE i \in 1..Len(pre.state.sessions) :
                           pre.state.sessions[i].token = TokenT].uri
UsesToken(t) == Task(t).req.headers.x_auth_token = Some(TokenT)

\* The place of a task in the order in which the tree guard was taken
Pos(t) == CHOOSE i \in 1..Len(flight.order) : flight.order[i] = t

\* A DELETE of T's session among the requests
Revoking(d) == Task(d).req.method = "DELETE" /\ TaskUri(d) = SessionOfT

\* The first DELETE of T's session that was answered 204
Revokes(d) == Revoking(d) /\ Task(d).pc = "done" /\ Task(d).resp.status = 204

\* C31: with a DELETE of T's session among the requests, a request presenting
\* token T is answered 401, or it is processed as if before the DELETE: it
\* took the tree guard before the DELETE did, its identity is the session's
\* username, and its response is the one the handlers give one at a time in
\* that order.  The username a request resolved stays its identity whatever
\* happens to the session store, and a request that takes the tree guard
\* after the DELETE was answered 204 does not succeed.
C31_RevocationLinearizable ==
    \A t \in Tasks :
        /\ (UsesToken(t) /\ Task(t).pc = "done"
            /\ \E d \in Tasks \ {t} : Revoking(d)) =>
               \/ Task(t).resp.status = 401
               \/ /\ Task(t).resp.status \in {200, 204}
                  /\ Task(t).user = Some("admin")
                  /\ \A d \in Tasks \ {t} : Revokes(d) => Pos(t) < Pos(d)
                  /\ Task(t).resp = Sequential(pre.state, flight.order).resps[Pos(t)]
        /\ (UsesToken(t) /\ Task(t).pc \in {"tree", "members", "map", "store", "unstore"})
               => Task(t).user = Some("admin")
        /\ (UsesToken(t) /\ Task(t).pc = "done") =>
               \A d \in Tasks \ {t} :
                   (Revokes(d) /\ Pos(d) < Pos(t)) => Task(t).resp.status \notin {200, 204}

\* A GET with token T arrived before the DELETE of T's session and took the
\* tree guard after it: the DELETE is answered 204, the GET 401
C31_LateUseRefused ==
    \E d, t \in Tasks :
        /\ Revokes(d)
        /\ ~UsesToken(d)
        /\ UsesToken(t)
        /\ Task(t).req.method = "GET"
        /\ t < d
        /\ Task(t).pc = "done"
        /\ Task(t).resp.status = 401
        /\ Pos(d) < Pos(t)

\* A task is inside the tree from the return of tree.lock() to its own return
Inside(t) == Task(t).pc \notin {"idle", "lock", "done"}
Reader(t) == Task(t).req.method = "GET"

\* C32: the tree guard is a reader-writer lock.  Two tasks are inside the
\* tree together only if both are GETs (create, delete and patch exclude every
\* other operation), and a GET that is about to take the guard can take it
\* while the task inside is a GET (get takes the guard shared).
C32_ReaderWriterLock ==
    \A t, u \in Tasks :
        /\ (t # u /\ Inside(t) /\ Inside(u)) => (Reader(t) /\ Reader(u))
        /\ (Reader(t) /\ Task(t).pc = "lock" /\ Reader(u) /\ Inside(u)) =>
               ENABLED (LockTree /\ flight'.tasks[t].pc # "lock")

\* A GET is inside the tree and a second GET has arrived
C32_SecondReaderArrived ==
    \E t, u \in Tasks :
        /\ Reader(t)
        /\ Task(t).pc = "lock"
        /\ Reader(u)
        /\ Task(u).pc = "tree"

\* poster has the token and is taking, or holds, the session guard to push
\* the new session
Recording(t) == SessionPost(t) /\ Task(t).pc \in {"record", "recording"}

\* A GET that does not need the session store for its identity
PlainRead(t) == Reader(t) /\ IsNone(Task(t).req.headers.x_auth_token)

\* C33: a POST to the session collection holds the session guard for its new
\* session only when the tree guard is no longer its own, and while it is
\* recording the session a GET that is about to take the tree guard can take
\* it.
C33_IndependentSessionGuard ==
    \A t \in Tasks :
        /\ (SessionPost(t) /\ Task(t).pc = "recording") => flight.tree_guard # t
        /\ Recording(t) =>
               \A u \in Tasks :
                   (PlainRead(u) /\ Task(u).pc = "lock") =>
                       ENABLED (LockTree /\ flight'.tasks[u].pc # "lock")

\* An anonymous POST holds the session guard for its new session and a GET of
\* the collection with Basic credentials has arrived
C33_ReadArrivesWhileRecording ==
    \E t, u \in Tasks :
        /\ SessionPost(t)
        /\ IsNone(Task(t).req.headers.authorization)
        /\ Task(t).pc = "recording"
        /\ flight.sessions_guard = t
        /\ PlainRead(u)
        /\ Task(u).pc = "lock"

\* A payload its hook can process: a string UserName for create_session, a
\* number SessionTimeout for patch_session_service
WellFormed(r) ==
    /\ r.method = "POST" => r.payload.json.o["UserName"].t = "str"
    /\ r.method = "PATCH" => IsSome(as_u64(r.payload.json.o["SessionTimeout"]))

\* The requests whose payload the hook can process
FairRequests == { r \in ConcRequests : WellFormed(r) }

\* The tasks that run at once under the fair scheduler
MaxFairTasks == 2

\* A request with a well-formed payload reaches its handler
ArriveWellFormed ==
    \E t \in 1..MaxFairTasks, r \in FairRequests :
        /\ Task(t).pc = "idle"
        /\ t > 1 => Task(t - 1).pc # "idle"
        /\ r.method = "POST" =>
               Cardinality({u \in Tasks : Task(u).req.method = "POST"}) < MaxTokens
        /\ flight' = [flight EXCEPT !.tasks[t].pc = "lock", !.tasks[t].req = r]
        /\ UNCHANGED <<tree, sessions, poisoned, drawn, req, resp, pre, hist, node>>

\* The steps of the handlers: what the threads of the runtime do on their own
HandlerSteps ==
    \/ LockTree
    \/ Identity
    \/ TreeGet
    \/ TreePatch
    \/ DeleteCheck
    \/ DeleteMembers
    \/ DeleteMap
    \/ LockSessions
    \/ DeleteStore
    \/ CreateCheck
    \/ CreateInsert
    \/ CreatePush
    \/ CreateToken
    \/ CreateRecord

NextFair ==
    \/ ArriveWellFormed
    \/ HandlerSteps

\* Requests arrive or not as clients please; a handler that can take a step
\* is run, and a thread waiting in Mutex::lock is woken when the guard is free
SpecConcFair == Init /\ [][NextFair]_vars /\ WF_vars(HandlerSteps)

Returned(t) == Task(t).pc = "done" /\ Task(t).resp.status # 0

\* C34: whoever holds the session guard holds the tree guard, taken before it,
\* and nobody waiting for the tree guard holds the session guard; and under
\* any interleaving of GET, POST, PATCH and DELETE requests with well-formed
\* payloads every request that has reached its handler eventually returns a
\* response.
C34_DeadlockFree ==
    /\ [](\A t \in Tasks :
              /\ flight.sessions_guard = t => flight.tree_guard = t
              /\ Task(t).pc = "lock" => flight.sessions_guard # t)
    /\ <>[](\A t \in Tasks : Task(t).pc = "idle" \/ Returned(t))

\* A POST and a DELETE, each a taker of both guards, have both returned
C34_AllReturned ==
    \E p, d \in Tasks :
        /\ SessionPost(p)
        /\ Returned(p)
        /\ Task(p).resp.status = 201
        /\ Task(d).req.method = "DELETE"
        /\ Returned(d)
        /\ Task(d).resp.status = 204


---------------------------------------------------------------------------
(* The session store against the session collection                        *)

\* The URIs of the sessions in AppState.sessions, and the members of the
\* session collection of the tree
StoredUris == {sessions[i].uri : i \in 1..Len(sessions)}
MemberUris == {SessionMembers[i] : i \in 1..Len(SessionMembers)}

\* C35: in every state between two requests the URIs of the session store
\* are the members of /redfish/v1/SessionService/Sessions, no URI is in two
\* session entries and no token is in two session entries.
C35_StoreMatchesCollection ==
    /\ StoredUris = MemberUris
    /\ \A i, j \in 1..Len(sessions) :
           i # j => /\ sessions[i].uri # sessions[j].uri
                    /\ sessions[i].token # sessions[j].token

\* A POST of a JSON object whose UserName is not a string was the request
\* just handled, by a service that had served every request before it, and
\* the collection now has a member that no session entry names
C35_MemberWithoutEntry ==
    /\ req.method = "POST"
    /\ req.path = SessionsUri
    /\ req.payload.valid
    /\ req.payload.json.t = "obj"
    /\ "UserName" \in DOMAIN req.payload.json.o
    /\ req.payload.json.o["UserName"].t # "str"
    /\ ~pre.state.poisoned
    /\ MemberUris \ StoredUris # {}


---------------------------------------------------------------------------
(* The service after a payload its hook cannot process                     *)

\* A JSON object that has passed the Json extractor and that the hook of its
\* target cannot process: a PATCH of the session service without a number as
\* SessionTimeout, a POST to the session collection without a string as
\* UserName
HookCannotProcess(r) ==
    /\ IsNone(json_rejection(r))
    /\ r.payload.json.t = "obj"
    /\ \/ /\ r.method = "PATCH"
          /\ trim_trailing_slash(r.path) = SessionServiceUri
          /\ ~ ( /\ "SessionTimeout" \in DOMAIN r.payload.json.o
                 /\ IsSome(as_u64(r.payload.json.o["SessionTimeout"])) )
       \/ /\ r.method = "POST"
          /\ strip_members(trim_trailing_slash(r.path)) = SessionsUri
          /\ ~ ( /\ "UserName" \in DOMAIN r.payload.json.o
                 /\ r.payload.json.o["UserName"].t = "str" )

\* C36: a request with a payload its hook cannot process leaves the tree
\* guard usable, and every request is answered as the service answers it
\* from the same tree and session store with the guard free.
C36_UsableAfterRejection ==
    /\ (HookCannotProcess(req) /\ ~pre.state.poisoned) => ~poisoned
    /\ req.method # "NONE" =>
           resp = serve([pre.state EXCEPT !.poisoned = FALSE], req).resp

\* A GET of the service root has been handled after an earlier request had
\* left the tree mutex poisoned, and it got no response
C36_LaterRequestDropped ==
    /\ pre.state.poisoned
    /\ req.method = "GET"
    /\ trim_trailing_slash(req.path) = RootUri
    /\ resp = NoResponse


---------------------------------------------------------------------------
(* DELETE of a session by any authenticated identity                       *)

\* The identities a DELETE can present: the token of the session it deletes,
\* the token of another session, or no token and Basic credentials
OwnToken ==
    \E e \in Entries(pre.state.sessions) :
        e.uri = Target /\ req.headers.x_auth_token = Some(e.token)
OtherToken ==
    \E e \in Entries(pre.state.sessions) :
        e.uri # Target /\ req.headers.x_auth_token = Some(e.token)
BasicIdentity ==
    /\ IsNone(req.headers.x_auth_token)
    /\ IsSome(req.headers.authorization)
    /\ Unwrap(req.headers.authorization).basic

\* The request is an authenticated DELETE of a member of the session
\* collection
DeleteOfSession ==
    /\ ReachesIdentity
    /\ req.method = "DELETE"
    /\ Contains(PreTree.collections[SessionsUri].members, Target)
    /\ OwnToken \/ OtherToken \/ BasicIdentity

\* C37: an authenticated DELETE of a session resource is answered 204, the
\* resource is gone, the session store has lost the entries of the deleted
\* URI and no other, and every other session's token still resolves to its
\* username.
C37_DeleteByAnyIdentity ==
    DeleteOfSession =>
        /\ resp.status = 204
        /\ Target \notin DOMAIN tree.resources
        /\ Entries(sessions) = {e \in Entries(pre.state.sessions) : e.uri # Target}
        /\ \A e \in Entries(pre.state.sessions) :
               e.uri # Target => get_token_user(e.token, sessions) = Some(e.username)

\* The first of three sessions has been deleted by a request that presented
\* the token of the third; the second and the third are still in the store
C37_DeletedWithAnothersToken ==
    /\ DeleteOfSession
    /\ OtherToken
    /\ resp.status = 204
    /\ Len(pre.state.sessions) = 3
    /\ Target = pre.state.sessions[1].uri
    /\ req.headers.x_auth_token = Some(pre.state.sessions[3].token)
    /\ Len(sessions) = 2


---------------------------------------------------------------------------
(* The type registries under sequences of add_resource and add_collection  *)

\* The calls of one run
MaxAdds == 4

\* Resources an embedder adds: the three roles of the mock tree, a role of an
\* older schema version, and the session service
RegistryResources ==
    { RoleResource(AdministratorUri, "Administrator Role", "Administrator", <<"Login">>),
      RoleResource(OperatorUri, "Operator Role", "Operator", <<"Login">>),
      RoleResource(ReadOnlyUri, "ReadOnly Role", "ReadOnly", <<"Login">>),
      RedfishResource_new(AdminUri, "Role", ResourceSchemaVersion_new(1, 3, 0),
                          "Role", "Older Role", None, None, Some(RolesUri),
                          JObj(EmptyMap)),
      SessionServiceResource }

\* Collections an embedder adds: two of the mock tree, and a second role
\* collection at another URI
RegistryCollections ==
    { SessionCollection,
      RoleCollection,
      RedfishCollection_new(AccountsUri, "RoleCollection", "More Roles", <<>>, None) }

\* The calls made so far, in order: the registry each call is for and the
\* type of its argument
Calls == Unwrap(node)

InitRegistry ==
    /\ tree = MockTree_new
    /\ sessions = <<>>
    /\ poisoned = FALSE
    /\ drawn = 0
    /\ req = NoRequest
    /\ resp = NoResponse
    /\ pre = [ state |-> State, hist |-> InitialHist ]
    /\ hist = InitialHist
    /\ node = Some(<<>>)
    /\ flight = IdleFlight

\* tree.add_resource(resource)
AddResource ==
    \E r \in RegistryResources :
        /\ Len(Calls) < MaxAdds
        /\ tree' = add_resource(tree, r)
        /\ node' = Some(Append(Calls, [registry |-> "resource_types",
                                       type |-> r.resource_type]))
        /\ UNCHANGED <<sessions, poisoned, drawn, req, resp, pre, hist, flight>>

\* tree.add_collection(collection)
AddCollection ==
    \E c \in RegistryCollections :
        /\ Len(Calls) < MaxAdds
        /\ tree' = add_collection(tree, c)
        /\ node' = Some(Append(Calls, [registry |-> "collection_types",
                                       type |-> c.resource_type]))
        /\ UNCHANGED <<sessions, poisoned, drawn, req, resp, pre, hist, flight>>

NextRegistry ==
    \/ AddResource
    \/ AddCollection

SpecRegistry == InitRegistry /\ [][NextRegistry]_vars

\* The types passed to the calls for one registry, in call order
Passed(registry) ==
    LET calls == SelectSeq(Calls, LAMBDA c : c.registry = registry)
    IN  [i \in 1..Len(calls) |-> calls[i].type]

\* Two types with the same name and version
SameNameAndVersion(a, b) == a.name = b.name /\ a.version = b.version

\* Of a sequence of types, those that no earlier one matches in name and
\* version, in the order of the sequence
FirstRegistrations(types) ==
    LET kept[k \in 0..Len(types)] ==
            IF k = 0 THEN <<>>
            ELSE IF \E j \in 1..(k - 1) : SameNameAndVersion(types[j], types[k])
                 THEN kept[k - 1]
                 ELSE Append(kept[k - 1], types[k])
    IN  kept[Len(types)]

Distinct(types) ==
    \A i, j \in 1..Len(types) : i # j => ~SameNameAndVersion(types[i], types[j])

\* C38: after any sequence of add_resource and add_collection calls neither
\* type list holds two entries with the same name and version, and each list
\* is the types passed to its calls, first registrations only, in call order.
C38_RegistryDistinct ==
    /\ Distinct(tree.resource_types)
    /\ Distinct(tree.collection_types)
    /\ tree.resource_types = FirstRegistrations(Passed("resource_types"))
    /\ tree.collection_types = FirstRegistrations(Passed("collection_types"))

\* The three roles of schema version v1_3_1 have been added and the
\* resource-type list is the one Role entry
C38_ThreeRolesOneEntry ==
    /\ {AdministratorUri, OperatorUri, ReadOnlyUri} \subseteq DOMAIN tree.resources
    /\ Len(Passed("resource_types")) = 3
    /\ tree.resource_types =
           <<ResourceType_new_dmtf("Role", ResourceSchemaVersion_new(1, 3, 1))>>


---------------------------------------------------------------------------
(* Capability bits and hooks                                               *)

\* The capability bit a verb needs
Bit(allowed, method) ==
    CASE method \in {"GET", "HEAD"} -> allowed.get
      [] method = "DELETE" -> allowed.delete
      [] method = "PATCH" -> allowed.patch
      [] method = "POST" -> allowed.post

\* The URI of the node a request acts on: poster strips a trailing /Members
ActsOn == IF req.method = "POST" THEN strip_members(Target) ELSE Target

\* The request names a node of the tree it was served from, with a verb
\* whose capability bit on that node is clear
VerbNotOffered ==
    /\ Responded
    /\ route(Target) = "/redfish/*path"
    /\ \/ /\ ActsOn \in DOMAIN PreTree.resources
          /\ ~Bit(ResourceNode(PreTree.resources[ActsOn]).allowed, req.method)
       \/ /\ ActsOn \in DOMAIN PreTree.collections
          /\ ~Bit(CollectionNode(PreTree.collections[ActsOn]).allowed, req.method)

\* C39: every node offers GET; a collection offers POST exactly when it has
\* a post hook and never DELETE or PATCH; a resource offers DELETE exactly
\* when it has a delete hook, PATCH exactly when it has a patch hook, and
\* never POST; and a request with a verb its node does not offer leaves the
\* tree as it was.
C39_CapabilitiesFollowHooks ==
    /\ \A uri \in DOMAIN tree.collections :
           LET c == tree.collections[uri]
               a == CollectionNode(c).allowed
           IN  /\ a.get
               /\ a.post <=> IsSome(c.post)
               /\ ~a.delete
               /\ ~a.patch
    /\ \A uri \in DOMAIN tree.resources :
           LET r == tree.resources[uri]
               a == ResourceNode(r).allowed
           IN  /\ a.get
               /\ a.delete <=> IsSome(r.delete)
               /\ a.patch <=> IsSome(r.patch)
               /\ ~a.post
    /\ VerbNotOffered => tree = pre.state.tree

\* An authenticated PATCH of a session, which has a delete hook and no patch
\* hook, has been refused with Allow: GET,HEAD,DELETE and the session is
\* still in the tree
C39_PatchOfSessionRefused ==
    /\ VerbNotOffered
    /\ AuthenticatedRequest("PATCH")
    /\ Target = SessionUri(1)
    /\ resp.status = 405
    /\ resp.allow = Some("GET,HEAD,DELETE")
    /\ SessionUri(1) \in DOMAIN tree.resources

====
